---- MODULE Spec2Model ----
(***************************************************************************)
(* Model of the event-driven backtest engine (src/engine/index.js) and of  *)
(* the margin model it calls (src/execution/margin_model.js).              *)
(*                                                                         *)
(* Numbers: the JavaScript numbers of the engine are modelled as exact     *)
(* rationals [n |-> numerator, d |-> denominator] in lowest terms with     *)
(* d > 0; the value null/undefined of a numeric field is Null.  Quantities *)
(* and timestamps are integers.                                            *)
(***************************************************************************)
EXTENDS Integers, Sequences, FiniteSets, TLC

VARIABLES
    run,        \* the inputs of the run: adapter events, params, strategy, execution
    engines,    \* BacktestEngine instances: instance id -> engine object
    fillModel,  \* a FillModel object with its orders, id counter and ledger
    margin      \* the last call of calculateMarginSnapshot: arguments and result

vars == <<run, engines, fillModel, margin>>

----------------------------------------------------------------------------
(* Bounds of the model *)

MaxEvents == 3      \* longest array the adapter returns
MaxRejected == 1    \* run calls that throw, per engine object

----------------------------------------------------------------------------
(* Exact rational arithmetic *)

Null == [n |-> 0, d |-> 0]

AbsInt(x) == IF x < 0 THEN -x ELSE x

RECURSIVE Gcd(_, _)
Gcd(a, b) == IF b = 0 THEN a ELSE Gcd(b, a % b)

Rat(num, den) ==
    LET s == IF den < 0 THEN -1 ELSE 1
        g == Gcd(AbsInt(num), AbsInt(den))
    IN  [n |-> (s * num) \div g, d |-> (s * den) \div g]

R(i) == [n |-> i, d |-> 1]

Zero == R(0)

RAdd(a, b) == Rat(a.n * b.d + b.n * a.d, a.d * b.d)
RNeg(a) == [n |-> -a.n, d |-> a.d]
RSub(a, b) == RAdd(a, RNeg(b))
RMul(a, b) == Rat(a.n * b.n, a.d * b.d)
RDiv(a, b) == Rat(a.n * b.d, a.d * b.n)
RAbs(a) == [n |-> AbsInt(a.n), d |-> a.d]
RLt(a, b) == a.n * b.d < b.n * a.d
RLe(a, b) == a.n * b.d <= b.n * a.d
RMax(a, b) == IF RLt(a, b) THEN b ELSE a
RFloor(a) == a.n \div a.d
\* Number.isFinite
IsFinite(a) == a.d # 0
Sign(i) == IF i > 0 THEN 1 ELSE IF i < 0 THEN -1 ELSE 0

\* a ?? b
Coalesce(a, b) == IF a = Null THEN b ELSE a
\* JavaScript arithmetic on null uses 0
Num(a) == IF a = Null THEN Zero ELSE a

----------------------------------------------------------------------------
(* Events *)

NoTime == -1            \* _nextFundingTimestamp == null
NoSeed == -1            \* params.random_seed == null
NoDate == -1            \* params.start_date or params.end_date == null
InvalidDate == -2       \* a date value whose getTime() is NaN
FractionalSeed == -2    \* a random_seed that is a number but no integer
Absent == "(absent)"    \* a string parameter that is undefined
Infinite == [n |-> 1, d |-> 0]      \* the number Infinity
NoId == [kind |-> "none", n |-> 0]

EVENT_PRIORITY(type) ==
    CASE type \in {"tick", "candle"} -> 10
      [] type = "signal_generated" -> 20
      [] type = "order_submitted" -> 30
      [] type = "order_filled" -> 40
      [] type = "order_cancelled" -> 50
      [] type = "funding_payment" -> 60
      [] type = "margin_update" -> 70
      [] type = "liquidated" -> 80
      [] OTHER -> 90

\* An event with every optional field absent.  origin is an auxiliary tag
\* (who produced the event); the engine never reads it.
BlankEvent(type, timestamp) ==
    [type |-> type, timestamp |-> timestamp, priority |-> 0, seq |-> 0,
     price |-> Null, close |-> Null, mark_price |-> Null,
     side |-> "none", qty |-> 0, order_id |-> NoId,
     amount |-> Null, funding_rate |-> Null, position_notional |-> Null,
     initial_margin |-> Null, maintenance_margin |-> Null,
     unrealized_pnl |-> Null, margin |-> Null, penalty |-> Null,
     reason |-> "none", trigger |-> "none", origin |-> "adapter"]

NullTimestamp == -1         \* event.timestamp == null
UnparsableTimestamp == -2   \* a timestamp no Date can be made of

NotANumber == -3            \* the NaN that getTime() returns for it

\* normalizeTimestamp: the time in ms; NotANumber where it throws
normalizeTimestamp(timestamp) ==
    IF timestamp = UnparsableTimestamp THEN NotANumber ELSE timestamp

\* the error normalizeEvent throws for an event, "ok" if it returns
normalizeEventError(event) ==
    IF event.type = Absent \/ event.type = "" THEN "type"
    ELSE IF event.timestamp = NullTimestamp THEN "timestamp_missing"
    ELSE IF normalizeTimestamp(event.timestamp) = NotANumber
    THEN "timestamp_invalid"
    ELSE "ok"

normalizeEvent(event) ==
    [event EXCEPT !.timestamp = normalizeTimestamp(event.timestamp),
                  !.priority = EVENT_PRIORITY(event.type)]

VALID_MARKET_TYPES == {"spot", "futures", "perpetual"}

\* String.prototype.trim on the strings used as parameters
Trim(str) == IF str \in {" ", "  "} THEN "" ELSE str

\* Number.isInteger
IsInteger(seed) == seed # FractionalSeed

compareEvents(a, b) ==
    IF a.timestamp # b.timestamp THEN a.timestamp - b.timestamp
    ELSE IF a.priority # b.priority THEN a.priority - b.priority
    ELSE a.seq - b.seq

\* Array.prototype.sort(compareEvents): a stable sort
InsertEvent(s, ev) ==
    LET pos == Cardinality({k \in 1..Len(s) : compareEvents(s[k], ev) <= 0})
    IN  SubSeq(s, 1, pos) \o <<ev>> \o SubSeq(s, pos + 1, Len(s))

RECURSIVE SortEvents(_)
SortEvents(q) ==
    IF q = <<>> THEN <<>>
    ELSE InsertEvent(SortEvents(SubSeq(q, 1, Len(q) - 1)), q[Len(q)])

enqueueEventsUnsorted(e, events) ==
    LET stamped == [k \in 1..Len(events) |->
                      [normalizeEvent(events[k]) EXCEPT !.seq = e.seq + k - 1]]
    IN  [e EXCEPT !.eventQueue = @ \o stamped,
                  !.seq = @ + Len(events)]

enqueueEvents(e, events) ==
    LET stamped == [k \in 1..Len(events) |->
                      [normalizeEvent(events[k]) EXCEPT !.seq = e.seq + k - 1]]
    IN  [e EXCEPT !.eventQueue = SortEvents(@ \o stamped),
                  !.seq = @ + Len(events)]

----------------------------------------------------------------------------
(* src/execution/margin_model.js *)

calculateUnrealizedPnl(position, markPrice) ==
    LET safeMark == IF ~IsFinite(markPrice) THEN position.avgPrice ELSE markPrice
    IN  RMul(R(position.qty), RSub(safeMark, position.avgPrice))

calculateMarginSnapshotAtEntry(position, markPrice, initialMarginRate, maintenanceMarginRate) ==
    LET absQty == AbsInt(position.qty)
        safeMark == IF ~IsFinite(markPrice) THEN position.avgPrice ELSE markPrice
        positionNotional == RMul(R(absQty), RAbs(position.avgPrice))
    IN  [markPrice |-> safeMark,
         positionNotional |-> positionNotional,
         initialMargin |-> RMul(positionNotional, RMax(Zero, initialMarginRate)),
         maintenanceMargin |-> RMul(positionNotional, RMax(Zero, maintenanceMarginRate)),
         unrealizedPnl |-> calculateUnrealizedPnl(position, safeMark)]

calculateMarginSnapshot(position, markPrice, initialMarginRate, maintenanceMarginRate) ==
    LET absQty == AbsInt(position.qty)
        safeMark == IF ~IsFinite(markPrice) THEN position.avgPrice ELSE markPrice
        positionNotional == RMul(R(absQty), RAbs(safeMark))
    IN  [markPrice |-> safeMark,
         positionNotional |-> positionNotional,
         initialMargin |-> RMul(positionNotional, RMax(Zero, initialMarginRate)),
         maintenanceMargin |-> RMul(positionNotional, RMax(Zero, maintenanceMarginRate)),
         unrealizedPnl |-> calculateUnrealizedPnl(position, safeMark)]

\* no call of calculateMarginSnapshot yet
NoSnapshot ==
    [calls |-> 0, position |-> [qty |-> 0, avgPrice |-> Zero], markPrice |-> Null,
     initialMarginRate |-> Null, maintenanceMarginRate |-> Null,
     result |-> calculateMarginSnapshot([qty |-> 0, avgPrice |-> Zero], Null,
                                        Null, Null)]

----------------------------------------------------------------------------
(* Seeded random source, src/engine/index.js createSeededRng.  The 32-bit  *)
(* generator state is reduced to RngModulus values and the output mixing   *)
(* is dropped: a call advances the state by the generator's increment and  *)
(* returns state / RngModulus, a value in [0, 1).                          *)

RngModulus == 4
RngIncrement == 1831565813      \* 0x6d2b79f5
SeedFallbackHi == 40503         \* 0x9e3779b9 = SeedFallbackHi * 65536 + SeedFallbackLo
SeedFallbackLo == 31161

hashSeed(seed) == seed % RngModulus

createSeededRng(seed) ==
    IF hashSeed(seed) # 0 THEN hashSeed(seed)
    ELSE ((SeedFallbackHi % RngModulus) * (65536 % RngModulus) + SeedFallbackLo) % RngModulus

RngAdvance(state) == (state + (RngIncrement % RngModulus)) % RngModulus
RngValue(state) == Rat(state, RngModulus)

----------------------------------------------------------------------------
(* Engine object *)

isMarginMarket(marketType) == marketType \in {"futures", "perpetual"}

ResetState ==
    [cash |-> Zero, equity |-> Zero, margin |-> Zero, maintenanceMargin |-> Zero,
     unrealizedPnl |-> Zero, lastPrice |-> Null, markPrice |-> Null,
     position |-> [qty |-> 0, avgPrice |-> Zero], liquidated |-> FALSE]

NoConfig ==
    [symbol |-> Absent, timeframe |-> Absent, start_date |-> NoDate,
     end_date |-> NoDate,
     market_type |-> "none", initial_cash |-> Null, random_seed |-> NoSeed,
     funding_rate |-> Zero, funding_interval_ms |-> 0,
     initial_margin_rate |-> Zero, maintenance_margin_rate |-> Zero,
     liquidation_penalty_rate |-> Zero]

\* reset(): on an engine object e
reset(e) ==
    [e EXCEPT !.state = ResetState, !.eventQueue = <<>>, !.seq = 0,
              !.tradeLogs = <<>>, !.equitySeries = <<>>, !.orders = <<>>,
              !.currentConfig = NoConfig, !.nextFundingTimestamp = NoTime,
              !.dispatched = <<>>, !.checks = <<>>, !.before = ResetState,
              !.logsBefore = 0]

\* new BacktestEngine(): options.random_seed defaults to 1.  dispatched,
\* checks and before are auxiliary: the events the run loop has dispatched,
\* what each queueRiskEvents call saw and did, and the account state and
\* the length of the trade log before the last dispatched event.  returned
\* is auxiliary too: the values the run calls on the object have returned.
DefaultSeed == 1

NewEngine ==
    [pc |-> "constructed",
     state |-> ResetState, eventQueue |-> <<>>, seq |-> 0,
     tradeLogs |-> <<>>, equitySeries |-> <<>>, orders |-> <<>>,
     currentConfig |-> NoConfig, nextFundingTimestamp |-> NoTime,
     randomSeed |-> DefaultSeed, rng |-> createSeededRng(DefaultSeed),
     orderCounter |-> 0, strategySent |-> FALSE,
     dispatched |-> <<>>, checks |-> <<>>, before |-> ResetState,
     logsBefore |-> 0, loads |-> 0, rejected |-> 0, returned |-> <<>>]

getRiskPriceLast(e) == Coalesce(e.state.lastPrice, e.state.position.avgPrice)

getRiskPrice(e) ==
    IF isMarginMarket(e.currentConfig.market_type)
    THEN Coalesce(e.state.markPrice, Coalesce(e.state.lastPrice, e.state.position.avgPrice))
    ELSE Coalesce(e.state.lastPrice, e.state.position.avgPrice)

BlankLog(type, timestamp) ==
    [timestamp |-> timestamp, type |-> type, order_id |-> NoId, side |-> "none",
     qty |-> 0, price |-> Null, cash_after |-> Null,
     position_after |-> [qty |-> 0, avgPrice |-> Null],
     amount |-> Null, funding_rate |-> Null,
     margin |-> Null, maintenance_margin |-> Null, unrealized_pnl |-> Null,
     mark_price |-> Null, penalty |-> Null, reason |-> "none", trigger |-> "none"]

\* this._orders.set(order_id, status)
SetOrder(orders, id, status) ==
    IF \E k \in 1..Len(orders) : orders[k].order_id = id
    THEN [k \in 1..Len(orders) |->
            IF orders[k].order_id = id THEN [order_id |-> id, status |-> status]
            ELSE orders[k]]
    ELSE Append(orders, [order_id |-> id, status |-> status])

HasOrder(orders, id) == \E k \in 1..Len(orders) : orders[k].order_id = id

CountType(q, type) == Cardinality({k \in 1..Len(q) : q[k].type = type})

----------------------------------------------------------------------------
(* Collaborators: the strategies and execution models of the test suite    *)
(* and the default execution model of the engine.                          *)

MaxEcho == 5        \* the time from which the tickOnTick strategy is silent

\* noopStrategy (onEvent: () => []) and LongOnFirstTickStrategy; tickOnTick
\* is a strategy that answers a tick with one tick a millisecond later
StrategyOnEvent(e, event) ==
    IF run.strategy = "longOnFirstTick" /\ event.type = "tick" /\ ~e.strategySent
    THEN <<[BlankEvent("signal_generated", event.timestamp) EXCEPT
               !.side = "buy", !.qty = 1, !.price = event.price,
               !.origin = "strategy"]>>
    ELSE IF run.strategy = "tickOnTick" /\ event.type = "tick"
            /\ event.timestamp < MaxEcho
    THEN <<[BlankEvent("tick", event.timestamp + 1) EXCEPT
               !.price = event.price, !.mark_price = event.mark_price,
               !.origin = "strategy"]>>
    ELSE <<>>

StrategySentAfter(e, event) ==
    e.strategySent \/ (run.strategy = "longOnFirstTick" /\ event.type = "tick")

LatencyRangeMs == 100
SlippageRangeBps == 10
BpsDenominator == 10000

RECURSIVE OrdersCreatedUpTo(_)
OrdersCreatedUpTo(i) ==
    IF i = 0 THEN 0
    ELSE (IF i \in DOMAIN engines THEN engines[i].orderCounter ELSE 0)
           + OrdersCreatedUpTo(i - 1)

\* the order ids drawn from one counter shared by all engine objects
DefaultOnSignalSharedCounter(e, signal) ==
    IF signal.side = "none" \/ signal.qty = 0 THEN <<>>
    ELSE
      LET r1 == RngAdvance(e.rng)
          r2 == RngAdvance(r1)
          orderId == [kind |-> "order", n |-> OrdersCreatedUpTo(2) + 1]
          latencyMs == RFloor(RMul(RngValue(r1), R(LatencyRangeMs)))
          slippageBps == RMul(RSub(RngValue(r2), Rat(1, 2)), R(SlippageRangeBps))
          refPrice == Coalesce(signal.price, Coalesce(e.state.lastPrice, Zero))
          fillPrice == RMul(refPrice, RAdd(R(1), RDiv(slippageBps, R(BpsDenominator))))
      IN  <<[BlankEvent("order_submitted", signal.timestamp) EXCEPT
                !.order_id = orderId, !.side = signal.side, !.qty = signal.qty,
                !.price = refPrice, !.origin = "execution"],
            [BlankEvent("order_filled", signal.timestamp + latencyMs) EXCEPT
                !.order_id = orderId, !.side = signal.side, !.qty = signal.qty,
                !.price = fillPrice, !.origin = "execution"]>>

\* createDefaultExecution().onSignal: draws latency, then slippage
DefaultOnSignal(e, signal) ==
    IF signal.side = "none" \/ signal.qty = 0 THEN <<>>
    ELSE
      LET r1 == RngAdvance(e.rng)
          r2 == RngAdvance(r1)
          orderId == [kind |-> "order", n |-> e.orderCounter + 1]
          latencyMs == RFloor(RMul(RngValue(r1), R(LatencyRangeMs)))
          slippageBps == RMul(RSub(RngValue(r2), Rat(1, 2)), R(SlippageRangeBps))
          refPrice == Coalesce(signal.price, Coalesce(e.state.lastPrice, Zero))
          fillPrice == RMul(refPrice, RAdd(R(1), RDiv(slippageBps, R(BpsDenominator))))
      IN  <<[BlankEvent("order_submitted", signal.timestamp) EXCEPT
                !.order_id = orderId, !.side = signal.side, !.qty = signal.qty,
                !.price = refPrice, !.origin = "execution"],
            [BlankEvent("order_filled", signal.timestamp + latencyMs) EXCEPT
                !.order_id = orderId, !.side = signal.side, !.qty = signal.qty,
                !.price = fillPrice, !.origin = "execution"]>>

\* immediateExecution.onSignal of the engine tests
ImmediateOnSignal(e, signal) ==
    <<[BlankEvent("order_submitted", signal.timestamp) EXCEPT
          !.order_id = [kind |-> "o", n |-> 1], !.side = signal.side,
          !.qty = signal.qty, !.price = signal.price, !.origin = "execution"],
      [BlankEvent("order_filled", signal.timestamp) EXCEPT
          !.order_id = [kind |-> "o", n |-> 1], !.side = signal.side,
          !.qty = signal.qty, !.price = signal.price, !.origin = "execution"]>>

ExecutionOnSignal(e, signal) ==
    IF run.execution = "default" THEN DefaultOnSignal(e, signal)
    ELSE ImmediateOnSignal(e, signal)

AfterOnSignalAlways(e, signal) ==
    IF run.execution = "default"
    THEN [e EXCEPT !.rng = RngAdvance(RngAdvance(@)), !.orderCounter = @ + 1]
    ELSE e

\* the engine object after the execution model has handled a signal: the
\* default execution consumed two random values and one order id
AfterOnSignal(e, signal) ==
    IF run.execution = "default" /\ signal.side # "none" /\ signal.qty # 0
    THEN [e EXCEPT !.rng = RngAdvance(RngAdvance(@)), !.orderCounter = @ + 1]
    ELSE e

----------------------------------------------------------------------------
(* Risk and funding scheduling.  Every intermediate value of a method is   *)
(* passed on as an argument, in the order the method computes them.        *)

BreachLoose(qty, projectedEquity, maintenanceMargin) ==
    AbsInt(qty) > 0 /\ RLe(projectedEquity, maintenanceMargin)

\* the liquidation condition of queueRiskEvents (lines 392-393)
Breach(qty, projectedEquity, maintenanceMargin) ==
    AbsInt(qty) > 0 /\ RLt(projectedEquity, maintenanceMargin)

\* lines 375-380
MarginSnapshotOf(e) ==
    calculateMarginSnapshot(e.state.position, getRiskPrice(e),
        e.currentConfig.initial_margin_rate,
        e.currentConfig.maintenance_margin_rate)

MarginUpdateEventSwapped(snapshot, timestamp, trigger) ==
    [BlankEvent("margin_update", timestamp) EXCEPT
        !.initial_margin = snapshot.maintenanceMargin,
        !.maintenance_margin = snapshot.initialMargin,
        !.unrealized_pnl = snapshot.unrealizedPnl,
        !.mark_price = snapshot.markPrice,
        !.trigger = trigger, !.origin = "engine"]

\* lines 382-390
MarginUpdateEvent(snapshot, timestamp, trigger) ==
    [BlankEvent("margin_update", timestamp) EXCEPT
        !.initial_margin = snapshot.initialMargin,
        !.maintenance_margin = snapshot.maintenanceMargin,
        !.unrealized_pnl = snapshot.unrealizedPnl,
        !.mark_price = snapshot.markPrice,
        !.trigger = trigger, !.origin = "engine"]

\* lines 394-402
LiquidatedEvent(snapshot, timestamp, penaltyRate) ==
    [BlankEvent("liquidated", timestamp) EXCEPT
        !.reason = "maintenance_margin_breach",
        !.price = snapshot.markPrice,
        !.penalty = RMul(snapshot.positionNotional, RMax(Zero, penaltyRate)),
        !.origin = "engine"]

\* lines 392-403, on the engine object e1 that holds the margin_update
EnqueueLiquidation(e1, cash, snapshot, timestamp) ==
    IF Breach(e1.state.position.qty, RAdd(cash, snapshot.unrealizedPnl),
              snapshot.maintenanceMargin)
    THEN enqueueEvents(e1, <<LiquidatedEvent(snapshot, timestamp,
                                e1.currentConfig.liquidation_penalty_rate)>>)
    ELSE e1

\* lines 375-403
EnqueueRiskEvents(e, snapshot, timestamp, trigger) ==
    EnqueueLiquidation(
        enqueueEvents(e, <<MarginUpdateEvent(snapshot, timestamp, trigger)>>),
        e.state.cash, snapshot, timestamp)

\* the record of one queueRiskEvents call: what it saw in e and what it
\* added to the queue on the way to the engine object after
RecordCheck(e, after, timestamp, trigger) ==
    [after EXCEPT !.checks = Append(@,
        [timestamp |-> timestamp, trigger |-> trigger,
         at |-> Len(e.dispatched),
         market_type |-> e.currentConfig.market_type,
         qty |-> e.state.position.qty, cash |-> e.state.cash,
         markPrice |-> getRiskPrice(e),
         avgPrice |-> e.state.position.avgPrice,
         maintenance_margin_rate |-> e.currentConfig.maintenance_margin_rate,
         liquidation_penalty_rate |-> e.currentConfig.liquidation_penalty_rate,
         marginUpdates |-> CountType(after.eventQueue, "margin_update")
                            - CountType(e.eventQueue, "margin_update"),
         liquidations |-> CountType(after.eventQueue, "liquidated")
                            - CountType(e.eventQueue, "liquidated")])]

queueRiskEvents(e, timestamp, trigger) ==
    IF ~isMarginMarket(e.currentConfig.market_type)
    THEN RecordCheck(e, e, timestamp, trigger)
    ELSE RecordCheck(e, EnqueueRiskEvents(e, MarginSnapshotOf(e), timestamp, trigger),
                     timestamp, trigger)

\* lines 354-364
FundingEvent(e, notional) ==
    [BlankEvent("funding_payment", e.nextFundingTimestamp) EXCEPT
        !.amount = RMul(RNeg(notional), e.currentConfig.funding_rate),
        !.funding_rate = e.currentConfig.funding_rate,
        !.position_notional = notional,
        !.origin = "engine"]

\* line 365
AdvanceFunding(e1, intervalMs) ==
    [e1 EXCEPT !.nextFundingTimestamp = @ + intervalMs]

RECURSIVE FundingLoop(_, _)
FundingLoop(e, timestamp) ==
    IF e.nextFundingTimestamp <= timestamp
    THEN FundingLoop(
            AdvanceFunding(
                enqueueEvents(e, <<FundingEvent(e,
                    RMul(R(AbsInt(e.state.position.qty)), RAbs(getRiskPrice(e))))>>),
                e.currentConfig.funding_interval_ms),
            timestamp)
    ELSE e

queueFundingEventsUntil(e, timestamp) ==
    IF e.currentConfig.funding_rate = Zero
       \/ e.currentConfig.funding_interval_ms <= 0
       \/ e.state.position.qty = 0
    THEN e
    ELSE IF e.nextFundingTimestamp = NoTime
    THEN [e EXCEPT !.nextFundingTimestamp =
                      timestamp + e.currentConfig.funding_interval_ms]
    ELSE FundingLoop(e, timestamp)

----------------------------------------------------------------------------
(* Event handlers: each maps the engine object and the event to the engine *)
(* object after the handler has returned.                                  *)

\* lines 179-180
UpdatePrices(e, lastPrice, event) ==
    [e EXCEPT !.state.lastPrice = lastPrice,
              !.state.markPrice = Coalesce(event.mark_price, Coalesce(@, lastPrice))]

\* lines 182-185
AskStrategy(e1, event) ==
    [enqueueEvents(e1, StrategyOnEvent(e1, event)) EXCEPT
        !.strategySent = StrategySentAfter(e1, event)]

\* lines 187-190: execution.onMarketEvent returns [] in every execution
\* model here
AskExecution(e2, event) == enqueueEvents(e2, <<>>)

handleMarketEvent(e, event) ==
    queueRiskEvents(
        queueFundingEventsUntil(
            AskExecution(
                AskStrategy(
                    UpdatePrices(e, Coalesce(event.price,
                                     Coalesce(event.close, e.state.lastPrice)), event),
                    event),
                event),
            event.timestamp),
        event.timestamp, "market")

handleSignal(e, event) ==
    enqueueEvents(AfterOnSignal(e, event), ExecutionOnSignal(e, event))

handleOrderSubmitted(e, event) ==
    [e EXCEPT !.orders = SetOrder(@, event.order_id, "submitted"),
              !.tradeLogs = Append(@,
                  [BlankLog(event.type, event.timestamp) EXCEPT
                      !.order_id = event.order_id, !.side = event.side,
                      !.qty = event.qty, !.price = event.price])]

SignedQtyUnsigned(side, qty) == AbsInt(qty)

SignedQty(side, qty) == IF side = "sell" THEN -AbsInt(qty) ELSE AbsInt(qty)

\* the average price after a fill (lines 225-232)
NewAvgPrice(prevQty, newQty, avgPrice, signedQty, fillPrice) ==
    IF newQty = 0 THEN Zero
    ELSE IF Sign(prevQty) = Sign(newQty) \/ prevQty = 0
    THEN RDiv(RAdd(RMul(avgPrice, R(prevQty)),
                   RMul(Num(fillPrice), R(signedQty))), R(newQty))
    ELSE fillPrice

\* lines 218-236
ApplyFill(e, event, fillPrice, signedQty) ==
    [e EXCEPT
       !.state.cash = RSub(@, RMul(R(signedQty), Num(fillPrice))),
       !.state.position.avgPrice =
           NewAvgPrice(e.state.position.qty, e.state.position.qty + signedQty,
                       @, signedQty, fillPrice),
       !.state.position.qty = @ + signedQty,
       !.orders = SetOrder(@, event.order_id, "filled")]

\* lines 237-246
LogFill(e1, event, fillPrice) ==
    [e1 EXCEPT !.tradeLogs = Append(@,
        [BlankLog("order_filled", event.timestamp) EXCEPT
            !.order_id = event.order_id, !.side = event.side,
            !.qty = event.qty, !.price = fillPrice,
            !.cash_after = e1.state.cash,
            !.position_after = e1.state.position])]

handleOrderFilled(e, event) ==
    queueRiskEvents(
        LogFill(ApplyFill(e, event, Coalesce(event.price, e.state.lastPrice),
                          SignedQty(event.side, event.qty)),
                event, Coalesce(event.price, e.state.lastPrice)),
        event.timestamp, "fill")

handleOrderCancelled(e, event) ==
    [e EXCEPT !.orders = IF HasOrder(@, event.order_id)
                         THEN SetOrder(@, event.order_id, "cancelled") ELSE @,
              !.tradeLogs = Append(@,
                  [BlankLog(event.type, event.timestamp) EXCEPT
                      !.order_id = event.order_id, !.reason = event.reason])]

ApplyFundingSubtracts(e, event) ==
    [e EXCEPT !.state.cash = RSub(@, Num(event.amount)),
              !.tradeLogs = Append(@,
                  [BlankLog(event.type, event.timestamp) EXCEPT
                      !.amount = event.amount,
                      !.funding_rate = event.funding_rate])]

\* lines 264-271
ApplyFunding(e, event) ==
    [e EXCEPT !.state.cash = RAdd(@, Num(event.amount)),
              !.tradeLogs = Append(@,
                  [BlankLog(event.type, event.timestamp) EXCEPT
                      !.amount = event.amount,
                      !.funding_rate = event.funding_rate])]

handleFundingPayment(e, event) ==
    queueRiskEvents(ApplyFunding(e, event), event.timestamp, "funding")

\* lines 277-279
ApplyMarginUpdate(e, event) ==
    [e EXCEPT
       !.state.margin = Coalesce(event.initial_margin,
                           Coalesce(event.margin, Coalesce(event.amount, @))),
       !.state.maintenanceMargin = Coalesce(event.maintenance_margin, @),
       !.state.unrealizedPnl = Coalesce(event.unrealized_pnl, @)]

\* lines 280-289
LogMarginUpdate(e1, event) ==
    [e1 EXCEPT !.tradeLogs = Append(@,
        [BlankLog(event.type, event.timestamp) EXCEPT
            !.margin = e1.state.margin,
            !.maintenance_margin = e1.state.maintenanceMargin,
            !.unrealized_pnl = e1.state.unrealizedPnl,
            !.mark_price = event.mark_price,
            !.trigger = event.trigger])]

\* a margin update that puts itself back into the queue
handleMarginUpdateRequeued(e, event) ==
    enqueueEvents(LogMarginUpdate(ApplyMarginUpdate(e, event), event), <<event>>)

handleMarginUpdate(e, event) == LogMarginUpdate(ApplyMarginUpdate(e, event), event)

\* lines 295-306
CloseOut(e1, event) ==
    IF e1.state.position.qty # 0
    THEN handleOrderFilled(e1,
           [event EXCEPT
              !.type = "order_filled",
              !.side = IF e1.state.position.qty > 0 THEN "sell" ELSE "buy",
              !.qty = AbsInt(e1.state.position.qty),
              !.price = Coalesce(event.price,
                           Coalesce(e1.state.lastPrice, e1.state.position.avgPrice)),
              !.order_id = IF event.order_id = NoId
                           THEN [kind |-> "liq", n |-> event.timestamp]
                           ELSE event.order_id])
    ELSE e1

DeductPenaltySkipped(e2, event) == e2

\* lines 308-310
DeductPenalty(e2, event) ==
    IF event.penalty # Null /\ event.penalty # Zero
    THEN [e2 EXCEPT !.state.cash = RSub(@, RAbs(event.penalty))]
    ELSE e2

\* lines 312-317
LogLiquidation(e3, event) ==
    [e3 EXCEPT !.tradeLogs = Append(@,
        [BlankLog(event.type, event.timestamp) EXCEPT
            !.reason = event.reason,
            !.penalty = Coalesce(event.penalty, Zero)])]

handleLiquidation(e, event) ==
    LogLiquidation(
        DeductPenalty(CloseOut([e EXCEPT !.state.liquidated = TRUE], event), event),
        event)

RecordEquityStale(e, timestamp, markPrice, unrealizedPnl) ==
    [e EXCEPT !.state.unrealizedPnl = unrealizedPnl,
              !.equitySeries = Append(@,
                  [timestamp |-> timestamp,
                   equity |-> e.state.equity,
                   cash |-> e.state.cash, margin |-> e.state.margin,
                   maintenance_margin |-> e.state.maintenanceMargin,
                   position_qty |-> e.state.position.qty,
                   position_avg_price |-> e.state.position.avgPrice,
                   last_price |-> e.state.lastPrice,
                   mark_price |-> markPrice])]

\* lines 323-336
RecordEquity(e, timestamp, markPrice, unrealizedPnl) ==
    [e EXCEPT !.state.equity = RAdd(e.state.cash, unrealizedPnl),
              !.state.unrealizedPnl = unrealizedPnl,
              !.equitySeries = Append(@,
                  [timestamp |-> timestamp,
                   equity |-> RAdd(e.state.cash, unrealizedPnl),
                   cash |-> e.state.cash, margin |-> e.state.margin,
                   maintenance_margin |-> e.state.maintenanceMargin,
                   position_qty |-> e.state.position.qty,
                   position_avg_price |-> e.state.position.avgPrice,
                   last_price |-> e.state.lastPrice,
                   mark_price |-> markPrice])]

updateEquity(e, timestamp) ==
    RecordEquity(e, timestamp, getRiskPrice(e),
                 calculateUnrealizedPnl(e.state.position, getRiskPrice(e)))

LoopExitIgnoresLiquidation(e) ==
    IF e.eventQueue = <<>> THEN "done" ELSE "running"

\* the while condition and the break of run (lines 119-126)
LoopExit(e) ==
    IF e.state.liquidated \/ e.eventQueue = <<>> THEN "done" ELSE "running"

\* the event at the head of the queue, which the iteration shifts off
NextEvent(e) == Head(e.eventQueue)

\* line 120: shift; the event is also noted as dispatched, with the account
\* state and the length of the trade log it found
Shift(e) ==
    [e EXCEPT !.eventQueue = Tail(@),
              !.dispatched = Append(@, NextEvent(e)),
              !.before = e.state,
              !.logsBefore = Len(e.tradeLogs)]

\* lines 123-125
EndIteration(e1) == [e1 EXCEPT !.pc = LoopExit(e1)]

\* JSON.parse(JSON.stringify(x)) of a number: what is not finite comes
\* back as null
JsonNumber(a) == IF IsFinite(a) THEN a ELSE Null

\* JSON.parse(JSON.stringify(this.state)), line 131
JsonState(state) ==
    [cash |-> JsonNumber(state.cash), equity |-> JsonNumber(state.equity),
     margin |-> JsonNumber(state.margin),
     maintenanceMargin |-> JsonNumber(state.maintenanceMargin),
     unrealizedPnl |-> JsonNumber(state.unrealizedPnl),
     lastPrice |-> JsonNumber(state.lastPrice),
     markPrice |-> JsonNumber(state.markPrice),
     position |-> [qty |-> state.position.qty,
                   avgPrice |-> JsonNumber(state.position.avgPrice)],
     liquidated |-> state.liquidated]

\* the value run returns (lines 128-132)
RunResult(e) ==
    [tradeLogs |-> e.tradeLogs, equitySeries |-> e.equitySeries,
     finalState |-> JsonState(e.state)]

\* the return of run once the loop has been left
Return(e2) ==
    IF e2.pc = "done" THEN [e2 EXCEPT !.returned = Append(@, RunResult(e2))]
    ELSE e2

\* one iteration of the run loop, given the engine object handled that the
\* handler selected by the switch of processEvent returned for the shifted
\* event: updateEquity (line 175), then the liquidation test, then the
\* return if the loop is left
Iteration(e, handled) ==
    Return(EndIteration(updateEquity(handled, NextEvent(e).timestamp)))

----------------------------------------------------------------------------
(* FillModel and PositionLedger, execution/fill_model.js (in this tree:    *)
(* src/unnamed/part_000, lines 516-892).  Quantities, prices and fees are  *)
(* rationals; an option or argument that is undefined is Null.             *)

\* Math.round(x + Number.EPSILON): the nearest integer, halves upwards
RoundHalfUp(a) == RFloor(RAdd(a, Rat(1, 2)))

\* rounding down to the step
roundToStepDown(value, step) ==
    IF step = Null \/ ~IsFinite(step) \/ RLe(step, Zero) THEN value
    ELSE RMul(R(RFloor(RDiv(value, step))), step)

\* Math.round(value / step) * step
roundToStep(value, step) ==
    IF step = Null \/ ~IsFinite(step) \/ RLe(step, Zero) THEN value
    ELSE RMul(R(RoundHalfUp(RDiv(value, step))), step)

roundToTick(price, tickSize) == roundToStep(price, tickSize)

roundToLot(qty, stepSize) == roundToStep(qty, stepSize)

RMin(a, b) == IF RLt(b, a) THEN b ELSE a

RSign(a) == Sign(a.n)

\* levels sorted by price, ascending (dir = 1) or descending (dir = -1);
\* Array.prototype.sort is stable
InsertLevel(s, level, dir) ==
    LET pos == Cardinality({k \in 1..Len(s) :
                   RLe(RMul(R(dir), s[k].price), RMul(R(dir), level.price))})
    IN  SubSeq(s, 1, pos) \o <<level>> \o SubSeq(s, pos + 1, Len(s))

RECURSIVE SortLevels(_, _)
SortLevels(s, dir) ==
    IF s = <<>> THEN <<>>
    ELSE InsertLevel(SortLevels(SubSeq(s, 1, Len(s) - 1), dir), s[Len(s)], dir)

normalizeBookSide(levels) ==
    SortLevels(SelectSeq(levels, LAMBDA level :
                   IsFinite(level.price) /\ IsFinite(level.qty)
                   /\ RLt(Zero, level.qty)), 1)

NoSlippage == [type |-> "none", fixed |-> Zero, pct |-> Zero,
               base |-> Zero, k |-> Zero]

slippageImpact(model, side, spread, qty, avgVolume) ==
    CASE model.type = "simple_fixed" ->
            RMul(R(IF side = "buy" THEN 1 ELSE -1), model.fixed)
      [] model.type = "pct_of_spread" ->
            RMul(RMul(R(IF side = "buy" THEN 1 ELSE -1), spread), model.pct)
      [] model.type = "liquidity_based" ->
            RMul(R(IF side = "buy" THEN 1 ELSE -1),
                 RAdd(model.base,
                      RMul(model.k, RDiv(RAbs(qty),
                           IF RLt(Zero, avgVolume) THEN avgVolume ELSE R(1)))))
      [] OTHER -> Zero

\* PositionLedger: the constructor
NewLedger == [qty |-> Zero, avgPrice |-> Zero, realizedPnl |-> Zero]

LedgerSignedQty(side, qty) == IF side = "buy" THEN RAbs(qty) ELSE RNeg(RAbs(qty))

\* applyFill, the branch taken from flat or in the position's direction
\* (lines 579-586)
LedgerExtend(ledger, signedQty, price, fee) ==
    [qty |-> RAdd(ledger.qty, signedQty),
     avgPrice |->
        IF RAdd(ledger.qty, signedQty) = Zero THEN Zero
        ELSE RDiv(RAdd(RMul(RAbs(ledger.qty), ledger.avgPrice),
                       RMul(RAbs(signedQty), price)),
                  RAbs(RAdd(ledger.qty, signedQty))),
     realizedPnl |-> RAdd(ledger.realizedPnl, RNeg(fee))]

ClosingDeltaUnsigned(ledger, signedQty, price, fee) ==
    RAdd(RNeg(fee),
         RMul(RSub(price, ledger.avgPrice),
              RMin(RAbs(ledger.qty), RAbs(signedQty))))

\* applyFill, realizedDelta of a fill against the position (lines 588-593)
ClosingDelta(ledger, signedQty, price, fee) ==
    RAdd(RNeg(fee),
         RMul(IF RLt(Zero, ledger.qty) THEN RSub(price, ledger.avgPrice)
              ELSE RSub(ledger.avgPrice, price),
              RMin(RAbs(ledger.qty), RAbs(signedQty))))

\* applyFill, the branch taken against the position (lines 588-607)
LedgerReduce(ledger, signedQty, price, fee) ==
    [qty |-> RAdd(ledger.qty, signedQty),
     avgPrice |->
        IF RAdd(ledger.qty, signedQty) = Zero THEN Zero
        ELSE IF RSign(RAdd(ledger.qty, signedQty)) = RSign(ledger.qty)
        THEN ledger.avgPrice
        ELSE price,
     realizedPnl |-> RAdd(ledger.realizedPnl,
                          ClosingDelta(ledger, signedQty, price, fee))]

\* PositionLedger.applyFill: the ledger after the fill
applyFill(ledger, side, qty, price, fee) ==
    IF ledger.qty = Zero \/ RSign(ledger.qty) = RSign(LedgerSignedQty(side, qty))
    THEN LedgerExtend(ledger, LedgerSignedQty(side, qty), price, fee)
    ELSE LedgerReduce(ledger, LedgerSignedQty(side, qty), price, fee)

\* PositionLedger.applyFill: the value it returns
applyFillReturn(ledger, side, qty, price, fee) ==
    IF ledger.qty = Zero \/ RSign(ledger.qty) = RSign(LedgerSignedQty(side, qty))
    THEN RNeg(fee)
    ELSE ClosingDelta(ledger, LedgerSignedQty(side, qty), price, fee)

\* the options a FillModel is constructed with
NoOptions ==
    [tickSize |-> Null, stepSize |-> Null, minNotional |-> Null,
     minQty |-> Null, maxQty |-> Null,
     makerFeeRate |-> Null, takerFeeRate |-> Null,
     slippageModel |-> NoSlippage, orderLatencyMs |-> 0, cancelLatencyMs |-> 0]

\* what a call returns; a field a result does not have is Null, NoId or <<>>
NoResult ==
    [status |-> "none", reason |-> "none", qty |-> Null, notional |-> Null,
     roundedQty |-> Null, orderId |-> NoId, requestedQty |-> Null,
     filledQty |-> Null, remainingQty |-> Null, fills |-> <<>>,
     cancellations |-> <<>>, effectiveAt |-> -1, value |-> Null]

\* the constructor (lines 611-632); calls, lastCall and prev note the
\* calls made, the arguments of the last one and the ledger, orders and id
\* counter it found
NewFillModel(options) ==
    [constraints |-> [tickSize |-> options.tickSize, stepSize |-> options.stepSize,
                      minNotional |-> options.minNotional,
                      minQty |-> options.minQty, maxQty |-> options.maxQty],
     fees |-> [maker |-> Num(options.makerFeeRate),
               taker |-> Num(options.takerFeeRate)],
     defaultSlippageModel |->
         IF options.slippageModel = NoSlippage
         THEN [NoSlippage EXCEPT !.type = "simple_fixed"]
         ELSE options.slippageModel,
     defaultCancelLatencyMs |-> options.cancelLatencyMs,
     orderLatencyMs |-> options.orderLatencyMs,
     orders |-> <<>>, id |-> 1, ledger |-> NewLedger,
     result |-> NoResult, calls |-> 0,
     lastCall |-> [method |-> "none"],
     prev |-> [orders |-> <<>>, id |-> 1, ledger |-> NewLedger]]

_buildReject(reason, qty, notional) ==
    [NoResult EXCEPT !.status = "rejected", !.reason = reason,
                     !.qty = qty, !.notional = notional]

\* lines 640-658, with the lot-rounded quantity at hand
ValidateRounded(fm, roundedQty, priceHint) ==
    IF ~IsFinite(roundedQty) \/ RLe(roundedQty, Zero)
    THEN _buildReject("invalid_qty", Null, Null)
    ELSE IF fm.constraints.minQty # Null /\ RLt(roundedQty, fm.constraints.minQty)
    THEN _buildReject("min_qty_violation", roundedQty, Null)
    ELSE IF fm.constraints.maxQty # Null /\ RLt(fm.constraints.maxQty, roundedQty)
    THEN _buildReject("max_qty_violation", roundedQty, Null)
    ELSE IF priceHint # Null /\ fm.constraints.minNotional # Null
            /\ RLt(RMul(roundedQty, priceHint), fm.constraints.minNotional)
    THEN _buildReject("min_notional_violation", roundedQty,
                      RMul(roundedQty, priceHint))
    ELSE [NoResult EXCEPT !.status = "ok", !.roundedQty = roundedQty]

_validateOrderNotionalFirst(fm, qty, priceHint) ==
    IF priceHint # Null /\ fm.constraints.minNotional # Null
       /\ RLt(RMul(roundToLot(qty, fm.constraints.stepSize), priceHint),
              fm.constraints.minNotional)
    THEN _buildReject("min_notional_violation",
                      roundToLot(qty, fm.constraints.stepSize),
                      RMul(roundToLot(qty, fm.constraints.stepSize), priceHint))
    ELSE ValidateRounded(fm, roundToLot(qty, fm.constraints.stepSize), priceHint)

_validateOrder(fm, qty, priceHint) ==
    ValidateRounded(fm, roundToLot(qty, fm.constraints.stepSize), priceHint)

\* market?.lastPrice ?? market?.midPrice ?? market?.price
MarketRefPrice(market) ==
    Coalesce(market.lastPrice, Coalesce(market.midPrice, market.price))

\* one fill record (lines 685-696 and 726-737)
FillRecord(a, qty, price, feeRate, liquidity, ledger) ==
    [orderId |-> a.orderId, timestamp |-> a.timestamp, side |-> a.side,
     qty |-> qty, price |-> price, executedNotional |-> RMul(qty, price),
     fee |-> RMul(RMul(qty, price), feeRate), feeRate |-> feeRate,
     liquidity |-> liquidity,
     realizedPnlDelta |->
        applyFillReturn(ledger, a.side, qty, price, RMul(RMul(qty, price), feeRate))]

\* lines 678-698: the fill against one level, for executedQty at
\* executedPrice
TakeLevel(a, acc, executedQty, executedPrice, feeRate) ==
    [ledger |-> applyFill(acc.ledger, a.side, executedQty, executedPrice,
                          RMul(RMul(executedQty, executedPrice), feeRate)),
     fills |-> Append(acc.fills,
                  FillRecord(a, executedQty, executedPrice, feeRate,
                             IF a.forceTaker THEN "taker" ELSE "maker",
                             acc.ledger)),
     remaining |-> RSub(acc.remaining, executedQty)]

PriceMatchAny(a, level) == TRUE

\* lines 671-676
PriceMatch(a, level) ==
    IF a.side = "buy"
    THEN a.limitPrice = Null \/ RLe(level.price, a.limitPrice)
    ELSE a.limitPrice = Null \/ RLe(a.limitPrice, level.price)

\* the body of the loop over the levels (lines 670-699)
BookFillLevel(fm, a, level, acc) ==
    IF ~PriceMatch(a, level) \/ RLe(acc.remaining, Zero) THEN acc
    ELSE TakeLevel(a, acc, RMin(acc.remaining, level.qty),
                   roundToTick(level.price, fm.constraints.tickSize),
                   IF a.forceTaker THEN fm.fees.taker ELSE fm.fees.maker)

RECURSIVE BookFillLoop(_, _, _, _)
BookFillLoop(fm, a, levels, acc) ==
    IF levels = <<>> THEN acc
    ELSE BookFillLoop(fm, a, Tail(levels), BookFillLevel(fm, a, Head(levels), acc))

_bookFillUnsorted(fm, a, book, acc) ==
    BookFillLoop(fm, a, IF a.side = "buy" THEN book.asks ELSE book.bids, acc)

\* _bookFill on the ledger, fills and remaining quantity in acc
_bookFill(fm, a, book, acc) ==
    BookFillLoop(fm, a,
        IF a.side = "buy" THEN normalizeBookSide(book.asks)
        ELSE SortLevels(normalizeBookSide(book.bids), -1),
        acc)

\* lines 717-739
BooklessTake(fm, a, acc, executedPrice) ==
    [ledger |-> applyFill(acc.ledger, a.side, acc.remaining, executedPrice,
                          RMul(RMul(executedPrice, acc.remaining), fm.fees.taker)),
     fills |-> Append(acc.fills,
                  FillRecord(a, acc.remaining, executedPrice, fm.fees.taker,
                             "taker", acc.ledger)),
     remaining |-> Zero]

\* _booklessFill for the quantity acc.remaining
_booklessFill(fm, a, market, model, acc) ==
    IF MarketRefPrice(market) = Null \/ ~IsFinite(MarketRefPrice(market))
    THEN acc
    ELSE BooklessTake(fm, a, acc,
            roundToTick(
                RAdd(MarketRefPrice(market),
                     slippageImpact(
                         IF model = NoSlippage THEN fm.defaultSlippageModel ELSE model,
                         a.side, Num(market.spread), acc.remaining,
                         Coalesce(market.avgVolume, acc.remaining))),
                fm.constraints.tickSize))

MarketFillsBookOnly(fm, a, o, acc) == acc

\* lines 751-771: the book, then the fallback for what is left
MarketFills(fm, a, o, acc) ==
    IF RLt(Zero, acc.remaining)
    THEN _booklessFill(fm, a, o.market, o.slippageModel, acc)
    ELSE acc

\* lines 773-780
MarketResult(fm1, id, roundedQty, acc) ==
    [fm1 EXCEPT
       !.ledger = acc.ledger,
       !.result = [NoResult EXCEPT
           !.status = IF acc.remaining = Zero THEN "filled" ELSE "partial",
           !.orderId = id, !.requestedQty = roundedQty,
           !.filledQty = RSub(roundedQty, acc.remaining),
           !.remainingQty = acc.remaining, !.fills = acc.fills]]

\* orderId || `mkt-${this._id++}`
TakeId(fm, orderId) ==
    IF orderId # NoId THEN fm ELSE [fm EXCEPT !.id = @ + 1]

MarketArgs(fm, o) ==
    [side |-> o.side, limitPrice |-> Null, timestamp |-> o.timestamp,
     orderId |-> IF o.orderId # NoId THEN o.orderId
                 ELSE [kind |-> "mkt", n |-> fm.id],
     forceTaker |-> TRUE]

\* lines 748-780
MarketAccepted(fm, o, a, roundedQty) ==
    MarketResult(TakeId(fm, o.orderId), a.orderId, roundedQty,
        MarketFills(fm, a, o,
            _bookFill(fm, a, o.orderbook,
                [ledger |-> fm.ledger, fills |-> <<>>, remaining |-> roundedQty])))

\* lines 743-746
MarketValidated(fm, o, validation) ==
    IF validation.status # "ok" THEN [fm EXCEPT !.result = validation]
    ELSE MarketAccepted(fm, o, MarketArgs(fm, o), validation.roundedQty)

executeMarketOrder(fm, o) ==
    MarketValidated(fm, o, _validateOrder(fm, o.qty, MarketRefPrice(o.market)))

\* Map.prototype.set: an existing key keeps its place
SetInOrders(orders, order) ==
    IF \E k \in 1..Len(orders) : orders[k].orderId = order.orderId
    THEN [k \in 1..Len(orders) |->
            IF orders[k].orderId = order.orderId THEN order ELSE orders[k]]
    ELSE Append(orders, order)

NoneAt == -1        \* expiresAt, cancelRequestedAt, cancelEffectiveAt == null

\* lines 793-807
LimitOrder(fm, o, id, roundedQty, roundedPrice) ==
    [orderId |-> id, side |-> o.side, qty |-> roundedQty,
     remainingQty |-> roundedQty, price |-> roundedPrice, mode |-> o.mode,
     status |-> "open", createdAt |-> o.timestamp,
     activeAt |-> o.timestamp + fm.orderLatencyMs,
     expiresAt |-> IF o.ttlMs # NoneAt THEN o.timestamp + o.ttlMs ELSE NoneAt,
     cancelRequestedAt |-> NoneAt, cancelEffectiveAt |-> NoneAt,
     fills |-> <<>>]

\* lines 793-811
LimitAccepted(fm, o, id, roundedQty, roundedPrice) ==
    [TakeId(fm, o.orderId) EXCEPT
       !.orders = SetInOrders(@, LimitOrder(fm, o, id, roundedQty, roundedPrice)),
       !.result = [NoResult EXCEPT !.status = "accepted", !.orderId = id]]

\* lines 788-791
LimitValidated(fm, o, roundedPrice, validation) ==
    IF validation.status # "ok" THEN [fm EXCEPT !.result = validation]
    ELSE LimitAccepted(fm, o,
            IF o.orderId # NoId THEN o.orderId ELSE [kind |-> "lmt", n |-> fm.id],
            validation.roundedQty, roundedPrice)

\* lines 787-788
LimitRounded(fm, o, roundedPrice) ==
    LimitValidated(fm, o, roundedPrice, _validateOrder(fm, o.qty, roundedPrice))

submitLimitOrder(fm, o) ==
    LimitRounded(fm, o, roundToTick(o.price, fm.constraints.tickSize))

UndefinedLatency == -1000   \* requestCancel called without latencyMs

CancelLatencyNone(fm, latencyMs) == 0

\* Math.max(0, Number(latencyMs) || 0), latencyMs defaulting to
\* defaultCancelLatencyMs
CancelLatency(fm, latencyMs) ==
    IF latencyMs = UndefinedLatency
    THEN (IF fm.defaultCancelLatencyMs > 0 THEN fm.defaultCancelLatencyMs ELSE 0)
    ELSE (IF latencyMs > 0 THEN latencyMs ELSE 0)

\* a request that leaves the effective time of an earlier one in place
CancelRequestedOnce(fm, o, effectiveAt) ==
    [fm EXCEPT
       !.orders = [k \in 1..Len(@) |->
                     IF @[k].orderId = o.orderId /\ @[k].cancelEffectiveAt = NoneAt
                     THEN [@[k] EXCEPT !.cancelRequestedAt = o.timestamp,
                                       !.cancelEffectiveAt = effectiveAt]
                     ELSE @[k]],
       !.result = [NoResult EXCEPT !.status = "cancel_requested",
                                   !.orderId = o.orderId,
                                   !.effectiveAt = effectiveAt]]

\* lines 820-822
CancelRequested(fm, o, effectiveAt) ==
    [fm EXCEPT
       !.orders = [k \in 1..Len(@) |->
                     IF @[k].orderId = o.orderId
                     THEN [@[k] EXCEPT !.cancelRequestedAt = o.timestamp,
                                       !.cancelEffectiveAt = effectiveAt]
                     ELSE @[k]],
       !.result = [NoResult EXCEPT !.status = "cancel_requested",
                                   !.orderId = o.orderId,
                                   !.effectiveAt = effectiveAt]]

requestCancelKnown(fm, o) ==
    IF ~\E k \in 1..Len(fm.orders) : fm.orders[k].orderId = o.orderId
    THEN [fm EXCEPT !.result = [_buildReject("order_not_open", Null, Null)
                                   EXCEPT !.orderId = o.orderId]]
    ELSE CancelRequested(fm, o, o.timestamp + CancelLatency(fm, o.latencyMs))

requestCancel(fm, o) ==
    IF ~\E k \in 1..Len(fm.orders) :
          fm.orders[k].orderId = o.orderId /\ fm.orders[k].status = "open"
    THEN [fm EXCEPT !.result = [_buildReject("order_not_open", Null, Null)
                                   EXCEPT !.orderId = o.orderId]]
    ELSE CancelRequested(fm, o, o.timestamp + CancelLatency(fm, o.latencyMs))

NoBook == [asks |-> <<>>, bids |-> <<>>, none |-> TRUE]

\* lines 826-828; Number(undefined) is NaN, which no comparison holds for
Crossed(order, marketEvent) ==
    IF order.side = "buy"
    THEN marketEvent.bestAsk # Null /\ RLe(marketEvent.bestAsk, order.price)
    ELSE marketEvent.bestBid # Null /\ RLe(order.price, marketEvent.bestBid)

\* marketEvent.orderbook || {asks: marketEvent.asks, bids: marketEvent.bids}
EventBook(marketEvent) ==
    IF marketEvent.orderbook # NoBook THEN marketEvent.orderbook
    ELSE [asks |-> marketEvent.asks, bids |-> marketEvent.bids, none |-> FALSE]

LimitArgsTaker(order, marketEvent) ==
    [side |-> order.side, limitPrice |-> order.price,
     timestamp |-> marketEvent.timestamp, orderId |-> order.orderId,
     forceTaker |-> TRUE]

\* lines 839-847
LimitArgs(order, marketEvent) ==
    [side |-> order.side, limitPrice |-> order.price,
     timestamp |-> marketEvent.timestamp, orderId |-> order.orderId,
     forceTaker |-> order.mode = "aggressive"]

\* lines 849-855
LimitFilled(order, r) ==
    [order |-> IF r.fills = <<>> THEN order
               ELSE [order EXCEPT
                       !.fills = @ \o r.fills,
                       !.remainingQty = r.remaining,
                       !.status = IF RLe(r.remaining, Zero) THEN "filled" ELSE @],
     ledger |-> r.ledger, fills |-> r.fills]

\* _executeLimitOrder on the ledger given: the order, the ledger and the
\* fills after it
_executeLimitOrder(fm, order, marketEvent, ledger) ==
    IF ~Crossed(order, marketEvent) /\ order.mode = "passive"
    THEN [order |-> order, ledger |-> ledger, fills |-> <<>>]
    ELSE LimitFilled(order,
            _bookFill(fm, LimitArgs(order, marketEvent), EventBook(marketEvent),
                [ledger |-> ledger, fills |-> <<>>,
                 remaining |-> order.remainingQty]))

\* lines 875-876 and 881-882
CancelOrder(acc, order, reason, timestamp) ==
    [acc EXCEPT
       !.orders = Append(@, [order EXCEPT !.status = "cancelled"]),
       !.cancellations = Append(@, [orderId |-> order.orderId, reason |-> reason,
                                    timestamp |-> timestamp])]

\* line 886
Evaluated(acc, x) ==
    [acc EXCEPT !.orders = Append(@, x.order), !.ledger = x.ledger,
                !.fills = @ \o x.fills]

ProcessOrderEager(fm, marketEvent, order, acc) ==
    IF order.status # "open"
    THEN [acc EXCEPT !.orders = Append(@, order)]
    ELSE IF order.cancelEffectiveAt # NoneAt
            /\ marketEvent.timestamp >= order.cancelEffectiveAt
    THEN CancelOrder(acc, order, "user_cancel", marketEvent.timestamp)
    ELSE IF order.expiresAt # NoneAt /\ marketEvent.timestamp >= order.expiresAt
    THEN CancelOrder(acc, order, "ttl_timeout", marketEvent.timestamp)
    ELSE Evaluated(acc, _executeLimitOrder(fm, order, marketEvent, acc.ledger))

ProcessOrderTtlFirst(fm, marketEvent, order, acc) ==
    IF order.status # "open" \/ marketEvent.timestamp < order.activeAt
    THEN [acc EXCEPT !.orders = Append(@, order)]
    ELSE IF order.expiresAt # NoneAt /\ marketEvent.timestamp >= order.expiresAt
    THEN CancelOrder(acc, order, "ttl_timeout", marketEvent.timestamp)
    ELSE IF order.cancelEffectiveAt # NoneAt
            /\ marketEvent.timestamp >= order.cancelEffectiveAt
    THEN CancelOrder(acc, order, "user_cancel", marketEvent.timestamp)
    ELSE Evaluated(acc, _executeLimitOrder(fm, order, marketEvent, acc.ledger))

\* the body of the loop over the orders (lines 865-886)
ProcessOrder(fm, marketEvent, order, acc) ==
    IF order.status # "open" \/ marketEvent.timestamp < order.activeAt
    THEN [acc EXCEPT !.orders = Append(@, order)]
    ELSE IF order.cancelEffectiveAt # NoneAt
            /\ marketEvent.timestamp >= order.cancelEffectiveAt
    THEN CancelOrder(acc, order, "user_cancel", marketEvent.timestamp)
    ELSE IF order.expiresAt # NoneAt /\ marketEvent.timestamp >= order.expiresAt
    THEN CancelOrder(acc, order, "ttl_timeout", marketEvent.timestamp)
    ELSE Evaluated(acc, _executeLimitOrder(fm, order, marketEvent, acc.ledger))

RECURSIVE ProcessLoop(_, _, _, _)
ProcessLoop(fm, marketEvent, k, acc) ==
    IF k > Len(fm.orders) THEN acc
    ELSE ProcessLoop(fm, marketEvent, k + 1,
                     ProcessOrder(fm, marketEvent, fm.orders[k], acc))

\* line 888
Processed(fm, acc) ==
    [fm EXCEPT !.orders = acc.orders, !.ledger = acc.ledger,
               !.result = [NoResult EXCEPT !.status = "processed",
                                           !.fills = acc.fills,
                                           !.cancellations = acc.cancellations]]

processMarketEvent(fm, marketEvent) ==
    Processed(fm, ProcessLoop(fm, marketEvent, 1,
        [orders |-> <<>>, ledger |-> fm.ledger, fills |-> <<>>,
         cancellations |-> <<>>]))

\* a call of a method on the FillModel object: what it found is noted
Called(fm, method, o) ==
    [fm EXCEPT !.calls = @ + 1,
               !.lastCall = [method |-> method, args |-> o],
               !.prev = [orders |-> fm.orders, id |-> fm.id, ledger |-> fm.ledger]]

----------------------------------------------------------------------------
(* Inputs of a run *)

MaxGap == 2         \* largest step between two successive adapter timestamps

\* what the adapter can put into one event, besides the timestamp
Payloads ==
    {[BlankEvent("tick", 0) EXCEPT !.price = R(2), !.mark_price = R(2)],
     [BlankEvent("tick", 0) EXCEPT !.price = R(1), !.mark_price = R(1)],
     [BlankEvent("order_filled", 0) EXCEPT !.side = "buy", !.qty = 2,
         !.price = R(1), !.order_id = [kind |-> "x", n |-> 1]],
     [BlankEvent("order_filled", 0) EXCEPT !.side = "sell", !.qty = 1,
         !.price = R(2), !.order_id = [kind |-> "x", n |-> 2]],
     [BlankEvent("signal_generated", 0) EXCEPT !.side = "sell", !.qty = 1,
         !.price = R(2)],
     [BlankEvent("order_cancelled", 0) EXCEPT
         !.order_id = [kind |-> "x", n |-> 1], !.reason = "user_cancel"],
     [BlankEvent("liquidated", 0) EXCEPT !.price = R(1),
         !.reason = "maintenance_margin_breach"]}

RECURSIVE SumTo(_, _)
SumTo(f, k) == IF k = 0 THEN 0 ELSE f[k] + SumTo(f, k - 1)

\* arrays of up to maxLen events in time order, the first stamped 0, each
\* next one 0..MaxGap later
ArraysOf(payloads, maxLen) ==
    UNION {
      {[k \in 1..len |-> [pay[k] EXCEPT !.timestamp = SumTo(gap, k)]] :
          pay \in [1..len -> payloads],
          gap \in {g \in [1..len -> 0..MaxGap] : g[1] = 0}}
      : len \in 1..maxLen}

\* the arrays adapter.load(params) returns
AdapterArrays == ArraysOf(Payloads, MaxEvents)

RunConfig(marketType, seed) ==
    [NoConfig EXCEPT !.symbol = "BTCUSDT", !.timeframe = "1m",
                     !.start_date = 0, !.end_date = 20,
                     !.market_type = marketType, !.initial_cash = R(3),
                     !.random_seed = seed,
                     !.funding_rate = Rat(1, 2), !.funding_interval_ms = 1,
                     !.initial_margin_rate = R(1),
                     !.maintenance_margin_rate = Rat(1, 2),
                     !.liquidation_penalty_rate = Rat(1, 2)]

\* run parameters that differ from params in one field so that
\* validateRunParams has something to object to
BadRunParams(params) ==
    {[params EXCEPT !.symbol = v] : v \in {Absent, "", " "}}
    \cup {[params EXCEPT !.timeframe = v] : v \in {Absent, "", " "}}
    \cup {[params EXCEPT !.market_type = v] : v \in {Absent, "", " ", "margin"}}
    \cup {[params EXCEPT !.start_date = params.end_date + 1]}
    \cup {[params EXCEPT !.initial_cash = v] : v \in {R(-1), Infinite}}
    \cup {[params EXCEPT !.random_seed = FractionalSeed]}

\* the run parameters and the collaborators plugged in: the default
\* execution with a strategy that never trades (signals come from the
\* adapter), and the immediate execution of the engine tests with
\* LongOnFirstTickStrategy
Setups ==
    {[params |-> RunConfig("spot", NoSeed),
      strategy |-> "noop", execution |-> "default"],
     [params |-> RunConfig("futures", NoSeed),
      strategy |-> "noop", execution |-> "default"],
     [params |-> RunConfig("perpetual", NoSeed),
      strategy |-> "longOnFirstTick", execution |-> "immediate"]}

----------------------------------------------------------------------------
(* The state machine *)

\* lines 103-109
Configure(e1, params) ==
    IF params.initial_cash # Null
    THEN [e1 EXCEPT !.currentConfig = params,
                    !.state.cash = params.initial_cash,
                    !.state.equity = params.initial_cash]
    ELSE [e1 EXCEPT !.currentConfig = params]

\* lines 111-114
Reseed(e2, params) ==
    IF params.random_seed # NoSeed
    THEN [e2 EXCEPT !.randomSeed = params.random_seed,
                    !.rng = createSeededRng(params.random_seed)]
    ELSE e2

LoadAndEnqueueSkippingBad(e3, events) ==
    [enqueueEvents(e3, SelectSeq([k \in 1..Len(events) |-> normalizeEvent(events[k])],
                                 LAMBDA ev : normalizeEventError(ev) = "ok"))
        EXCEPT !.pc = IF events = <<>> THEN "done" ELSE "running",
               !.loads = @ + 1]

\* lines 116-119: loadData calls the adapter and normalizes all of its
\* events, which throws at the first bad one; enqueueEvents queues them,
\* and the loop is entered unless the queue is empty
LoadAndEnqueue(e3, events) ==
    IF \E k \in 1..Len(events) : normalizeEventError(events[k]) # "ok"
    THEN [e3 EXCEPT !.pc = "failed", !.loads = @ + 1]
    ELSE Return(
           [enqueueEvents(e3, [k \in 1..Len(events) |-> normalizeEvent(events[k])])
              EXCEPT !.pc = IF events = <<>> THEN "done" ELSE "running",
                     !.loads = @ + 1])

\* validateRunParams: the error it throws, "ok" if it returns
validateRunParams(params) ==
    IF \E field \in {params.symbol, params.timeframe, params.market_type} :
          field = Absent \/ Trim(field) = ""
    THEN "required_string"
    ELSE IF params.market_type \notin VALID_MARKET_TYPES THEN "market_type"
    ELSE IF params.start_date = NoDate \/ params.end_date = NoDate
    THEN "dates_required"
    ELSE IF params.start_date = InvalidDate \/ params.end_date = InvalidDate
    THEN "dates_invalid"
    ELSE IF params.start_date > params.end_date THEN "date_order"
    ELSE IF params.initial_cash # Null
            /\ (~IsFinite(params.initial_cash) \/ RLt(params.initial_cash, Zero))
    THEN "initial_cash"
    ELSE IF params.random_seed # NoSeed /\ ~IsInteger(params.random_seed)
    THEN "random_seed"
    ELSE "ok"

\* a run call that threw: the engine object is as the throw found it, but
\* for the count of rejected calls
Rejected(e) == [e EXCEPT !.rejected = @ + 1]

runWithResetFirst(e, params, events) ==
    IF validateRunParams(params) # "ok"
    THEN Rejected(reset(e))
    ELSE LoadAndEnqueue(Reseed(Configure(reset(e), params), params), events)

\* run(params) with an adapter that returns events, up to the first loop
\* test (lines 97-119)
runWith(e, params, events) ==
    IF validateRunParams(params) # "ok"
    THEN Rejected(e)
    ELSE LoadAndEnqueue(Reseed(Configure(reset(e), params), params), events)

StartRun(e) == runWith(e, run.params, run.events)

Init ==
    /\ run \in {[events |-> ev, params |-> su.params,
                 strategy |-> su.strategy, execution |-> su.execution] :
                    ev \in AdapterArrays, su \in Setups}
    /\ engines = [i \in {1} |-> NewEngine]
    /\ fillModel = NewFillModel(NoOptions)
    /\ margin = NoSnapshot

Run(i) ==
    /\ engines[i].pc = "constructed"
    /\ engines' = [engines EXCEPT ![i] = StartRun(@)]
    /\ UNCHANGED <<run, fillModel, margin>>

\* the run loop is synchronous: once an engine object has entered it, no
\* other engine object runs until it has returned
InLoop(i) == engines[i].pc = "running" /\ engines[i].dispatched # <<>>

Dispatch(i, types, handled) ==
    /\ engines[i].pc = "running"
    /\ \A j \in DOMAIN engines \ {i} : ~InLoop(j)
    /\ NextEvent(engines[i]).type \in types
    /\ engines' = [engines EXCEPT ![i] = Iteration(@, handled)]
    /\ UNCHANGED <<run, fillModel, margin>>

HandleMarketEvent ==
    \E i \in DOMAIN engines :
        Dispatch(i, {"tick", "candle"},
                 handleMarketEvent(Shift(engines[i]), NextEvent(engines[i])))
HandleSignal ==
    \E i \in DOMAIN engines :
        Dispatch(i, {"signal_generated"},
                 handleSignal(Shift(engines[i]), NextEvent(engines[i])))
HandleOrderSubmitted ==
    \E i \in DOMAIN engines :
        Dispatch(i, {"order_submitted"},
                 handleOrderSubmitted(Shift(engines[i]), NextEvent(engines[i])))
HandleOrderFilled ==
    \E i \in DOMAIN engines :
        Dispatch(i, {"order_filled"},
                 handleOrderFilled(Shift(engines[i]), NextEvent(engines[i])))
HandleOrderCancelled ==
    \E i \in DOMAIN engines :
        Dispatch(i, {"order_cancelled"},
                 handleOrderCancelled(Shift(engines[i]), NextEvent(engines[i])))
HandleFundingPayment ==
    \E i \in DOMAIN engines :
        Dispatch(i, {"funding_payment"},
                 handleFundingPayment(Shift(engines[i]), NextEvent(engines[i])))
HandleMarginUpdate ==
    \E i \in DOMAIN engines :
        Dispatch(i, {"margin_update"},
                 handleMarginUpdate(Shift(engines[i]), NextEvent(engines[i])))
HandleLiquidation ==
    \E i \in DOMAIN engines :
        Dispatch(i, {"liquidated"},
                 handleLiquidation(Shift(engines[i]), NextEvent(engines[i])))
RunCall == \E i \in DOMAIN engines : Run(i)

\* a further run call on an engine object whose run has returned, with
\* parameters that differ from those of the run in one field
RunInvalid ==
    \E i \in DOMAIN engines :
        \E params \in BadRunParams(run.params) :
            /\ engines[i].pc = "done"
            /\ engines[i].rejected < MaxRejected
            /\ \A j \in DOMAIN engines \ {i} : ~InLoop(j)
            /\ engines' = [engines EXCEPT ![i] = runWith(@, params, run.events)]
            /\ UNCHANGED <<run, fillModel, margin>>

Next ==
    \/ RunCall
    \/ HandleMarketEvent
    \/ HandleSignal
    \/ HandleOrderSubmitted
    \/ HandleOrderFilled
    \/ HandleOrderCancelled
    \/ HandleFundingPayment
    \/ HandleMarginUpdate
    \/ HandleLiquidation
    \/ RunInvalid

Spec == Init /\ [][Next]_vars

----------------------------------------------------------------------------
(* Two independent engine objects given the same inputs *)

DetMaxEvents == 3

DetPayloads ==
    {pl \in Payloads :
        pl.type \in {"tick", "signal_generated", "order_cancelled"}}

DetSetups ==
    {[params |-> RunConfig("spot", 2),
      strategy |-> "noop", execution |-> "default"],
     [params |-> RunConfig("futures", 3),
      strategy |-> "noop", execution |-> "default"],
     [params |-> RunConfig("perpetual", NoSeed),
      strategy |-> "longOnFirstTick", execution |-> "immediate"]}

InitDet ==
    /\ run \in {[events |-> ev, params |-> su.params,
                 strategy |-> su.strategy, execution |-> su.execution] :
                    ev \in ArraysOf(DetPayloads, DetMaxEvents), su \in DetSetups}
    /\ engines = [i \in {1, 2} |-> NewEngine]
    /\ fillModel = NewFillModel(NoOptions)
    /\ margin = NoSnapshot

SpecDet == InitDet /\ [][Next]_vars

----------------------------------------------------------------------------
(* Longer perpetual runs of ticks and signals, for the funding schedule *)

FundingMaxEvents == 4

FundingSetups ==
    {[params |-> RunConfig("perpetual", NoSeed),
      strategy |-> "longOnFirstTick", execution |-> "immediate"]}

InitFunding ==
    /\ run \in {[events |-> ev, params |-> su.params,
                 strategy |-> su.strategy, execution |-> su.execution] :
                    ev \in ArraysOf(DetPayloads, FundingMaxEvents),
                    su \in FundingSetups}
    /\ engines = [i \in {1} |-> NewEngine]
    /\ fillModel = NewFillModel(NoOptions)
    /\ margin = NoSnapshot

SpecFunding == InitFunding /\ [][Next]_vars

----------------------------------------------------------------------------
(* Perpetual runs in which LongOnFirstTickStrategy has opened a position   *)
(* at the first tick and the second tick has armed the funding schedule,   *)
(* followed by ticks, sell signals and cancellations                       *)

ReopenMaxEvents == 3

\* the two ticks every such run begins with
HeldPrefix ==
    <<[BlankEvent("tick", 0) EXCEPT !.price = R(2), !.mark_price = R(2)],
      [BlankEvent("tick", 1) EXCEPT !.price = R(2), !.mark_price = R(2)]>>

ReopenPayloads == {pl \in DetPayloads : pl.price # R(1)}

\* prefix followed by up to maxLen events in time order, each 0..MaxGap
\* after the one before it
ArraysAfter(prefix, payloads, maxLen) ==
    UNION {
      {prefix \o [k \in 1..len |->
                    [pay[k] EXCEPT !.timestamp =
                        prefix[Len(prefix)].timestamp + SumTo(gap, k)]] :
          pay \in [1..len -> payloads],
          gap \in [1..len -> 0..MaxGap]}
      : len \in 0..maxLen}

InitReopen ==
    /\ run \in {[events |-> ev, params |-> su.params,
                 strategy |-> su.strategy, execution |-> su.execution] :
                    ev \in ArraysAfter(HeldPrefix, ReopenPayloads, ReopenMaxEvents),
                    su \in FundingSetups}
    /\ engines = [i \in {1} |-> NewEngine]
    /\ fillModel = NewFillModel(NoOptions)
    /\ margin = NoSnapshot

SpecReopen == InitReopen /\ [][Next]_vars

----------------------------------------------------------------------------
(* Runs whose ticks carry a mark price different from the traded price, or *)
(* no mark price at all, as in the engine test "uses mark price for        *)
(* unrealized pnl and emits margin updates"                                *)

MarkMaxEvents == 3

MarkPayloads ==
    {[BlankEvent("tick", 0) EXCEPT !.price = R(2), !.mark_price = R(2)],
     [BlankEvent("tick", 0) EXCEPT !.price = R(2), !.mark_price = R(1)],
     [BlankEvent("tick", 0) EXCEPT !.price = R(1)],
     [BlankEvent("tick", 0) EXCEPT !.price = R(2)],
     [BlankEvent("order_filled", 0) EXCEPT !.side = "buy", !.qty = 2,
         !.price = R(1), !.order_id = [kind |-> "x", n |-> 1]],
     [BlankEvent("order_cancelled", 0) EXCEPT
         !.order_id = [kind |-> "x", n |-> 1], !.reason = "user_cancel"]}

MarkSetups ==
    {[params |-> RunConfig("spot", NoSeed),
      strategy |-> "longOnFirstTick", execution |-> "immediate"],
     [params |-> RunConfig("futures", NoSeed),
      strategy |-> "longOnFirstTick", execution |-> "immediate"]}

InitMark ==
    /\ run \in {[events |-> ev, params |-> su.params,
                 strategy |-> su.strategy, execution |-> su.execution] :
                    ev \in ArraysOf(MarkPayloads, MarkMaxEvents),
                    su \in MarkSetups}
    /\ engines = [i \in {1} |-> NewEngine]
    /\ fillModel = NewFillModel(NoOptions)
    /\ margin = NoSnapshot

SpecMark == InitMark /\ [][Next]_vars

----------------------------------------------------------------------------
(* Perpetual runs whose adapter may return one event without a type,       *)
(* without a timestamp or with a timestamp that cannot be parsed           *)

BadMaxEvents == 3

\* an event as the adapter can spoil it
Spoiled(event) ==
    {[event EXCEPT !.type = Absent], [event EXCEPT !.type = ""],
     [event EXCEPT !.timestamp = NullTimestamp],
     [event EXCEPT !.timestamp = UnparsableTimestamp]}

\* the arrays with the event at one place spoiled
SpoiledArrays(arrays) ==
    UNION {UNION {{[arr EXCEPT ![k] = bad] : bad \in Spoiled(arr[k])} :
                     k \in 1..Len(arr)} :
              arr \in arrays}

InitBad ==
    /\ run \in {[events |-> ev, params |-> su.params,
                 strategy |-> su.strategy, execution |-> su.execution] :
                    ev \in ArraysOf(DetPayloads, BadMaxEvents)
                            \cup SpoiledArrays(ArraysOf(DetPayloads, BadMaxEvents)),
                    su \in FundingSetups}
    /\ engines = [i \in {1} |-> NewEngine]
    /\ fillModel = NewFillModel(NoOptions)
    /\ margin = NoSnapshot

SpecBad == InitBad /\ [][Next]_vars

----------------------------------------------------------------------------
(* The FillModel object: market orders and limit orders submitted to it.   *)
(* The engine does not call it, so its calls form a state machine of their *)
(* own on the variable fillModel.                                                 *)

MaxCalls == 2       \* calls made on the FillModel object

FillOptions ==
    {[NoOptions EXCEPT !.stepSize = R(1), !.minQty = R(2), !.maxQty = R(3),
                       !.minNotional = R(6)],
     [NoOptions EXCEPT !.tickSize = R(1), !.stepSize = Rat(1, 2),
                       !.takerFeeRate = Rat(1, 2)],
     [NoOptions EXCEPT !.stepSize = R(1)],
     NoOptions}

NoMarket ==
    [lastPrice |-> Null, midPrice |-> Null, price |-> Null,
     spread |-> Null, avgVolume |-> Null]

Markets == {NoMarket, [NoMarket EXCEPT !.lastPrice = R(2)]}

Orderbooks ==
    {[asks |-> <<>>, bids |-> <<>>],
     [asks |-> <<[price |-> R(2), qty |-> R(1)]>>,
      bids |-> <<[price |-> R(1), qty |-> R(1)]>>]}

OrderQtys == {R(-1), Zero, Rat(1, 4), Rat(3, 4), R(1), R(2), R(3), R(4)}

MarketOrders ==
    {[side |-> side, qty |-> qty, timestamp |-> 0, orderId |-> NoId,
      orderbook |-> book, market |-> market, slippageModel |-> NoSlippage] :
        side \in {"buy", "sell"}, qty \in OrderQtys,
        book \in Orderbooks, market \in Markets}

LimitOrders ==
    {[side |-> side, qty |-> qty, price |-> price, mode |-> "passive",
      ttlMs |-> NoneAt, timestamp |-> 0, orderId |-> id] :
        side \in {"buy", "sell"}, qty \in OrderQtys, price \in {R(2), R(3)},
        id \in {NoId, [kind |-> "x", n |-> 1]}}

InitFill ==
    /\ run = [events |-> <<>>, params |-> RunConfig("spot", NoSeed),
              strategy |-> "noop", execution |-> "default"]
    /\ engines = [i \in {1} |-> NewEngine]
    /\ fillModel \in {NewFillModel(options) : options \in FillOptions}
    /\ margin = NoSnapshot

ExecuteMarketOrder ==
    \E o \in MarketOrders :
        /\ fillModel.calls < MaxCalls
        /\ fillModel' = executeMarketOrder(Called(fillModel, "executeMarketOrder", o), o)
        /\ UNCHANGED <<run, engines, margin>>

SubmitLimitOrder ==
    \E o \in LimitOrders :
        /\ fillModel.calls < MaxCalls
        /\ fillModel' = submitLimitOrder(Called(fillModel, "submitLimitOrder", o), o)
        /\ UNCHANGED <<run, engines, margin>>

NextFill ==
    \/ ExecuteMarketOrder
    \/ SubmitLimitOrder

SpecFill == InitFill /\ [][NextFill]_vars

----------------------------------------------------------------------------
(* Market orders on a FillModel object, against books of up to two levels  *)
(* and markets with and without a reference price                          *)

MaxMarketCalls == 2     \* market orders executed on the FillModel object

MarketOptions ==
    {[NoOptions EXCEPT !.tickSize = Rat(1, 10), !.stepSize = Rat(1, 10),
                       !.takerFeeRate = Rat(1, 100)],
     [NoOptions EXCEPT !.tickSize = R(1), !.stepSize = R(1),
                       !.makerFeeRate = Rat(1, 4), !.takerFeeRate = Rat(1, 2)]}

MarketBooks ==
    {[asks |-> <<>>, bids |-> <<>>],
     [asks |-> <<[price |-> R(100), qty |-> R(1)]>>, bids |-> <<>>],
     [asks |-> <<[price |-> Rat(5, 2), qty |-> R(1)],
                 [price |-> Rat(3, 2), qty |-> R(1)]>>,
      bids |-> <<[price |-> Rat(3, 2), qty |-> R(1)],
                 [price |-> Rat(5, 2), qty |-> R(1)]>>]}

MarketStates ==
    {NoMarket,
     [NoMarket EXCEPT !.lastPrice = R(101), !.spread = R(2), !.avgVolume = R(10)],
     [NoMarket EXCEPT !.midPrice = R(2)]}

SlippageModels ==
    {NoSlippage,
     [NoSlippage EXCEPT !.type = "simple_fixed", !.fixed = R(1)],
     [NoSlippage EXCEPT !.type = "pct_of_spread", !.pct = Rat(1, 2)]}

MarketInputs ==
    {[side |-> side, qty |-> qty, timestamp |-> 1, orderId |-> NoId,
      orderbook |-> book, market |-> market, slippageModel |-> model] :
        side \in {"buy", "sell"}, qty \in {Rat(1, 4), R(1), R(3)},
        book \in MarketBooks, market \in MarketStates, model \in SlippageModels}

InitMarket ==
    /\ run = [events |-> <<>>, params |-> RunConfig("spot", NoSeed),
              strategy |-> "noop", execution |-> "default"]
    /\ engines = [i \in {1} |-> NewEngine]
    /\ fillModel \in {NewFillModel(options) : options \in MarketOptions}
    /\ margin = NoSnapshot

MarketOrder ==
    \E o \in MarketInputs :
        /\ fillModel.calls < MaxMarketCalls
        /\ fillModel' = executeMarketOrder(Called(fillModel, "executeMarketOrder", o), o)
        /\ UNCHANGED <<run, engines, margin>>

NextMarket == MarketOrder

SpecMarket == InitMarket /\ [][NextMarket]_vars

----------------------------------------------------------------------------
(* Limit orders on a FillModel object: submitted, cancelled on request and *)
(* evaluated at market events whose timestamps never go back               *)

MaxLimitCalls == 4  \* calls made on the FillModel object
MaxOrders == 2      \* limit orders submitted to it
MaxStep == 1        \* largest step between a market event and the call before it

LimitOptions ==
    {[NoOptions EXCEPT !.tickSize = R(1), !.stepSize = R(1),
                       !.makerFeeRate = Rat(1, 4), !.takerFeeRate = Rat(1, 2),
                       !.orderLatencyMs = latency, !.cancelLatencyMs = 1] :
        latency \in {0, 1}}

\* the timestamp of the last call
Clock(fm) == IF fm.calls = 0 THEN 0 ELSE fm.lastCall.args.timestamp

LimitInputs(timestamp) ==
    {[side |-> side, qty |-> R(2), price |-> price, mode |-> mode,
      ttlMs |-> ttlMs, timestamp |-> timestamp, orderId |-> NoId] :
        side \in {"buy", "sell"}, mode \in {"passive", "aggressive"},
        price \in {R(2), Rat(5, 2)}, ttlMs \in {NoneAt, 0, 1}}

CancelInputs(timestamp) ==
    {[orderId |-> [kind |-> "lmt", n |-> 1], timestamp |-> timestamp,
      latencyMs |-> latencyMs] : latencyMs \in {UndefinedLatency, 0, 2}}

NoMarketEvent ==
    [timestamp |-> 0, bestAsk |-> Null, bestBid |-> Null, orderbook |-> NoBook,
     asks |-> <<>>, bids |-> <<>>]

Level(price, qty) == [price |-> price, qty |-> qty]

Book(asks, bids) == [asks |-> asks, bids |-> bids, none |-> FALSE]

\* a book one unit deep at 2 / 1; a book two units deep at 3 / 2; levels off
\* the tick grid; a best ask that the levels do not bear out and no best
\* bid, the levels given as asks and bids of the event itself
MarketEvents(timestamp) ==
    {[NoMarketEvent EXCEPT !.timestamp = timestamp,
         !.bestAsk = R(2), !.bestBid = R(1),
         !.orderbook = Book(<<Level(R(2), R(1))>>, <<Level(R(1), R(1))>>)],
     [NoMarketEvent EXCEPT !.timestamp = timestamp,
         !.bestAsk = R(3), !.bestBid = R(2),
         !.orderbook = Book(<<Level(R(3), R(2))>>, <<Level(R(2), R(2))>>)],
     [NoMarketEvent EXCEPT !.timestamp = timestamp,
         !.bestAsk = Rat(3, 2), !.bestBid = Rat(5, 2),
         !.orderbook = Book(<<Level(Rat(5, 2), R(1)), Level(Rat(3, 2), R(1))>>,
                            <<Level(Rat(3, 2), R(1)), Level(Rat(5, 2), R(1))>>)],
     [NoMarketEvent EXCEPT !.timestamp = timestamp,
         !.bestAsk = R(3),
         !.asks = <<Level(R(1), R(2))>>, !.bids = <<Level(R(3), R(2))>>]}

InitLimit ==
    /\ run = [events |-> <<>>, params |-> RunConfig("spot", NoSeed),
              strategy |-> "noop", execution |-> "default"]
    /\ engines = [i \in {1} |-> NewEngine]
    /\ fillModel \in {NewFillModel(options) : options \in LimitOptions}
    /\ margin = NoSnapshot

SubmitLimit ==
    \E o \in LimitInputs(Clock(fillModel)) :
        /\ fillModel.calls < MaxLimitCalls
        /\ Len(fillModel.orders) < MaxOrders
        /\ fillModel' = submitLimitOrder(Called(fillModel, "submitLimitOrder", o), o)
        /\ UNCHANGED <<run, engines, margin>>

RequestCancel ==
    \E o \in CancelInputs(Clock(fillModel)) :
        /\ fillModel.calls < MaxLimitCalls
        /\ fillModel' = requestCancel(Called(fillModel, "requestCancel", o), o)
        /\ UNCHANGED <<run, engines, margin>>

ProcessMarketEvent ==
    \E step \in 0..MaxStep :
        \E marketEvent \in MarketEvents(Clock(fillModel) + step) :
            /\ fillModel.calls < MaxLimitCalls
            /\ fillModel' = processMarketEvent(
                    Called(fillModel, "processMarketEvent", marketEvent), marketEvent)
            /\ UNCHANGED <<run, engines, margin>>

NextLimit ==
    \/ SubmitLimit
    \/ RequestCancel
    \/ ProcessMarketEvent

SpecLimit == InitLimit /\ [][NextLimit]_vars

----------------------------------------------------------------------------
(* Fills applied to the PositionLedger of a FillModel object directly      *)

MaxFills == 3       \* fills applied to the ledger

LedgerFills ==
    {[side |-> side, qty |-> qty, price |-> price, fee |-> fee] :
        side \in {"buy", "sell"}, qty \in {R(1), R(2), R(-1)},
        price \in {R(100), R(110)}, fee \in {Zero, R(1)}}

InitLedger ==
    /\ run = [events |-> <<>>, params |-> RunConfig("spot", NoSeed),
              strategy |-> "noop", execution |-> "default"]
    /\ engines = [i \in {1} |-> NewEngine]
    /\ fillModel = NewFillModel(NoOptions)
    /\ margin = NoSnapshot

LedgerApplyFill ==
    \E o \in LedgerFills :
        /\ fillModel.calls < MaxFills
        /\ fillModel' =
              [Called(fillModel, "applyFill", o) EXCEPT
                 !.ledger = applyFill(@, o.side, o.qty, o.price, o.fee),
                 !.result = [NoResult EXCEPT
                     !.status = "returned",
                     !.value = applyFillReturn(fillModel.ledger, o.side, o.qty,
                                               o.price, o.fee)]]
        /\ UNCHANGED <<run, engines, margin>>

NextLedger == LedgerApplyFill

SpecLedger == InitLedger /\ [][NextLedger]_vars

----------------------------------------------------------------------------
(* calculateMarginSnapshot called on positions, mark prices and rates      *)

MaxSnapshots == 1   \* calls of calculateMarginSnapshot

SnapshotInputs ==
    {[position |-> [qty |-> qty, avgPrice |-> avgPrice], markPrice |-> markPrice,
      initialMarginRate |-> initialRate, maintenanceMarginRate |-> maintenanceRate] :
        qty \in {-3, 0, 3}, avgPrice \in {Zero, R(100)},
        markPrice \in {Null, Infinite, R(90), R(110), R(-90)},
        initialRate \in {Null, R(-1), Rat(1, 10)},
        maintenanceRate \in {Zero, Rat(1, 20)}}

InitMargin ==
    /\ run = [events |-> <<>>, params |-> RunConfig("spot", NoSeed),
              strategy |-> "noop", execution |-> "default"]
    /\ engines = [i \in {1} |-> NewEngine]
    /\ fillModel = NewFillModel(NoOptions)
    /\ margin = NoSnapshot

CalculateMarginSnapshot ==
    \E o \in SnapshotInputs :
        /\ margin.calls < MaxSnapshots
        /\ margin' = [calls |-> margin.calls + 1, position |-> o.position,
                      markPrice |-> o.markPrice,
                      initialMarginRate |-> o.initialMarginRate,
                      maintenanceMarginRate |-> o.maintenanceMarginRate,
                      result |-> calculateMarginSnapshot(o.position, o.markPrice,
                                    o.initialMarginRate, o.maintenanceMarginRate)]
        /\ UNCHANGED <<run, engines, fillModel>>

NextMargin == CalculateMarginSnapshot

SpecMargin == InitMargin /\ [][NextMargin]_vars

----------------------------------------------------------------------------
(* Two run calls, one after the other, on the same engine object with the  *)
(* same adapter events and the same parameters, with and without a         *)
(* random_seed in them; the strategy keeps no state of its own             *)

MaxRuns == 2            \* run calls that return, per engine object
RerunMaxEvents == 3

\* besides ticks, a sell signal, a cancellation and a liquidation: a signal
\* without a side and a signal with quantity 0
RerunPayloads ==
    DetPayloads \cup {pl \in Payloads : pl.type = "liquidated"}
        \cup {[BlankEvent("signal_generated", 0) EXCEPT !.qty = 1, !.price = R(2)],
              [BlankEvent("signal_generated", 0) EXCEPT !.side = "buy",
                  !.price = R(2)]}

RerunSetups ==
    {[params |-> RunConfig("spot", NoSeed),
      strategy |-> "noop", execution |-> "default"],
     [params |-> RunConfig("futures", 3),
      strategy |-> "noop", execution |-> "default"]}

InitRerun ==
    /\ run \in {[events |-> ev, params |-> su.params,
                 strategy |-> su.strategy, execution |-> su.execution] :
                    ev \in ArraysOf(RerunPayloads, RerunMaxEvents),
                    su \in RerunSetups}
    /\ engines = [i \in {1} |-> NewEngine]
    /\ fillModel = NewFillModel(NoOptions)
    /\ margin = NoSnapshot

\* the next run call on an engine object whose run has returned
RunAgain ==
    \E i \in DOMAIN engines :
        /\ engines[i].pc = "done"
        /\ Len(engines[i].returned) < MaxRuns
        /\ \A j \in DOMAIN engines \ {i} : ~InLoop(j)
        /\ engines' = [engines EXCEPT ![i] = StartRun(@)]
        /\ UNCHANGED <<run, fillModel, margin>>

NextRerun ==
    \/ RunCall
    \/ HandleMarketEvent
    \/ HandleSignal
    \/ HandleOrderSubmitted
    \/ HandleOrderFilled
    \/ HandleOrderCancelled
    \/ HandleFundingPayment
    \/ HandleMarginUpdate
    \/ HandleLiquidation
    \/ RunAgain

SpecRerun == InitRerun /\ [][NextRerun]_vars

----------------------------------------------------------------------------
(* Runs under the default execution model whose loop is taken to the end:  *)
(* every dispatch that can be made is made                                 *)

TermMaxEvents == 3

TermPayloads == {pl \in Payloads : pl.order_id # [kind |-> "x", n |-> 2]}

TermSetups ==
    {[params |-> RunConfig("spot", NoSeed),
      strategy |-> "longOnFirstTick", execution |-> "default"],
     [params |-> RunConfig("futures", 3),
      strategy |-> "noop", execution |-> "default"],
     [params |-> RunConfig("futures", 3),
      strategy |-> "tickOnTick", execution |-> "default"]}

InitTerm ==
    /\ run \in {[events |-> ev, params |-> su.params,
                 strategy |-> su.strategy, execution |-> su.execution] :
                    ev \in ArraysOf(TermPayloads, TermMaxEvents),
                    su \in TermSetups}
    /\ engines = [i \in {1} |-> NewEngine]
    /\ fillModel = NewFillModel(NoOptions)
    /\ margin = NoSnapshot

NextTerm ==
    \/ RunCall
    \/ HandleMarketEvent
    \/ HandleSignal
    \/ HandleOrderSubmitted
    \/ HandleOrderFilled
    \/ HandleOrderCancelled
    \/ HandleFundingPayment
    \/ HandleMarginUpdate
    \/ HandleLiquidation

DispatchTypes ==
    {"tick", "candle", "signal_generated", "order_submitted", "order_filled",
     "order_cancelled", "funding_payment", "margin_update", "liquidated"}

\* run() has been called on no engine object yet
CallPending == \E i \in DOMAIN engines : engines[i].pc = "constructed"

\* the loop of run() has an event to dispatch
LoopRunning ==
    \E i \in DOMAIN engines :
        /\ engines[i].pc = "running"
        /\ NextEvent(engines[i]).type \in DispatchTypes

\* run() is one synchronous call: it is made, it enters its loop, and while
\* the loop has an event to dispatch it dispatches one. These are the weak
\* fairness of the run call and of the dispatches, written out with
\* their enabling conditions CallPending and LoopRunning
SpecTerm ==
    /\ InitTerm /\ [][NextTerm]_vars
    /\ ([]<>(~CallPending) \/ []<><<RunCall>>_vars)
    /\ ([]<>(~LoopRunning) \/ []<><<NextTerm>>_vars)

----------------------------------------------------------------------------
(* Properties *)

Engines == DOMAIN engines

\* the scheduling key (timestamp, priority, sequence number), compared
\* lexicographically
KeyLess(a, b) ==
    \/ a.timestamp < b.timestamp
    \/ a.timestamp = b.timestamp /\ a.priority < b.priority
    \/ a.timestamp = b.timestamp /\ a.priority = b.priority /\ a.seq < b.seq

KeyLeq(a, b) == KeyLess(a, b) \/ (a.timestamp = b.timestamp
                    /\ a.priority = b.priority /\ a.seq = b.seq)

\* C1: of any two events the run loop has dispatched, the one dispatched
\* earlier has a (timestamp, priority, sequence number) key less than or
\* equal to the key of the one dispatched later.
C1_DispatchInKeyOrder ==
    \A i \in Engines :
        LET d == engines[i].dispatched
        IN  \A j, k \in 1..Len(d) : j < k => KeyLeq(d[j], d[k])

\* C2: the pending queue is always in strictly ascending key order (so its
\* head, the event popped next, is the minimum of all pending events), the
\* sequence numbers of pending events are distinct and below the next one to
\* hand out, and priorities are those of the kinds.
C2_QueueSorted ==
    \A i \in Engines :
        LET q == engines[i].eventQueue
        IN  /\ \A j, k \in 1..Len(q) : j < k => KeyLess(q[j], q[k])
            /\ \A j \in 2..Len(q) : KeyLeq(q[1], q[j])
            /\ \A j \in 1..Len(q) :
                  /\ q[j].seq >= 0 /\ q[j].seq < engines[i].seq
                  /\ q[j].priority = EVENT_PRIORITY(q[j].type)
            /\ \A j \in 1..Len(engines[i].dispatched) :
                  engines[i].dispatched[j].seq < engines[i].seq

\* C2 witness: an event enqueued while another was being handled sits in the
\* queue in front of an event enqueued before it, and two pending events tie
\* on timestamp and priority.
C2_Witness ==
    \E i \in Engines :
        LET q == engines[i].eventQueue
        IN  /\ engines[i].dispatched # <<>>
            /\ \E j, k \in 1..Len(q) : j < k /\ q[j].seq > q[k].seq
            /\ \E j, k \in 1..Len(q) :
                  /\ j < k /\ q[j].timestamp = q[k].timestamp
                  /\ q[j].priority = q[k].priority

SignedQuantity(side, qty) ==
    IF side = "sell" THEN 0 - (IF qty < 0 THEN -qty ELSE qty)
    ELSE (IF qty < 0 THEN -qty ELSE qty)

LastDispatched(i) == engines[i].dispatched[Len(engines[i].dispatched)]

JustDispatched(i, type) ==
    /\ engines[i].dispatched # <<>>
    /\ LastDispatched(i).type = type

\* C4: after an order_filled event with side S, quantity Q and price P has
\* been handled, cash = cash before - signedQty(S, Q) * P, and the cash_after
\* of the trade-log entry it appended is that same value.
C4_CashOnFill ==
    \A i \in Engines :
        JustDispatched(i, "order_filled") /\ LastDispatched(i).price # Null =>
            LET ev == LastDispatched(i)
                e == engines[i]
                expected == RSub(e.before.cash,
                               RMul(R(SignedQuantity(ev.side, ev.qty)), ev.price))
            IN  /\ e.state.cash = expected
                /\ Len(e.tradeLogs) = e.logsBefore + 1
                /\ e.tradeLogs[Len(e.tradeLogs)].type = "order_filled"
                /\ e.tradeLogs[Len(e.tradeLogs)].cash_after = expected

\* C4 witness: a sell fill at a price that is not a whole number has been
\* handled and has raised cash.
C4_Witness ==
    \E i \in Engines :
        /\ JustDispatched(i, "order_filled")
        /\ LastDispatched(i).side = "sell"
        /\ LastDispatched(i).price.d > 1
        /\ RLt(engines[i].before.cash, engines[i].state.cash)

\* C5: in every entry of the equity series, position_avg_price is 0 exactly
\* when position_qty is 0.
C5_AvgPriceZeroIffFlat ==
    \A i \in Engines :
        \A k \in 1..Len(engines[i].equitySeries) :
            LET entry == engines[i].equitySeries[k]
            IN  (entry.position_avg_price = Zero) <=> (entry.position_qty = 0)

\* C6: once a liquidated event has been processed the run loop dispatches
\* nothing more, whatever is still pending, and the state the run returns
\* has liquidated = TRUE and position quantity 0.
C6_LiquidationIsTerminal ==
    /\ [](\A i \in Engines :
            (\E k \in 1..Len(engines[i].dispatched) :
                engines[i].dispatched[k].type = "liquidated")
            => /\ JustDispatched(i, "liquidated")
               /\ engines[i].pc = "done"
               /\ engines[i].state.liquidated
               /\ engines[i].state.position.qty = 0)
    /\ [][\A i \in Engines :
            engines[i].state.liquidated =>
                /\ engines'[i].dispatched = engines[i].dispatched
                /\ engines'[i].eventQueue = engines[i].eventQueue]_vars

\* C6 witness: a liquidated event supplied by the adapter in a spot run has
\* closed an open position and ended the run with events still pending.
C6_Witness ==
    \E i \in Engines :
        /\ JustDispatched(i, "liquidated")
        /\ LastDispatched(i).origin = "adapter"
        /\ engines[i].currentConfig.market_type = "spot"
        /\ engines[i].before.position.qty # 0
        /\ engines[i].pc = "done"
        /\ engines[i].eventQueue # <<>>

\* the liquidation condition on the figures a risk check saw: a margin
\* market, an open position, and cash + unrealized PnL strictly below the
\* maintenance margin
ConditionAt(c) ==
    LET absQty == IF c.qty < 0 THEN -c.qty ELSE c.qty
        pnl == RMul(R(c.qty), RSub(c.markPrice, c.avgPrice))
        rate == IF RLt(c.maintenance_margin_rate, Zero) THEN Zero
                ELSE c.maintenance_margin_rate
        maintenance == RMul(RMul(R(absQty), RAbs(c.markPrice)), rate)
    IN  /\ c.market_type \in {"futures", "perpetual"}
        /\ c.qty # 0
        /\ RLt(RAdd(c.cash, pnl), maintenance)

\* C7: when the risk check made while handling a market event or a fill
\* at time t finds the position open and cash + unrealized PnL below the
\* maintenance margin, then by the end of the run a margin_update and after
\* it a liquidated event, both stamped t, have been dispatched, and no event
\* stamped later than t has been dispatched before them.
C7_LiquidatedAtSameTimestamp ==
    \A i \in Engines :
        engines[i].pc = "done" =>
            \A n \in 1..Len(engines[i].checks) :
                LET c == engines[i].checks[n]
                    d == engines[i].dispatched
                IN  c.trigger \in {"market", "fill"} /\ ConditionAt(c)
                    /\ d[c.at].type # "liquidated" =>
                        \E j, k \in c.at..Len(d) :
                            /\ j < k
                            /\ d[j].type = "margin_update"
                            /\ d[j].timestamp = c.timestamp
                            /\ d[k].type = "liquidated"
                            /\ d[k].timestamp = c.timestamp
                            /\ \A m \in c.at..k : d[m].timestamp <= c.timestamp

\* C8: a risk check enqueues a liquidated event exactly when the market is
\* futures or perpetual, the position is open and cash + unrealized PnL is
\* strictly below the maintenance margin; it never enqueues more than one.
C8_LiquidationCondition ==
    \A i \in Engines :
        \A n \in 1..Len(engines[i].checks) :
            LET c == engines[i].checks[n]
            IN  /\ c.liquidations \in {0, 1}
                /\ (c.liquidations = 1) <=> ConditionAt(c)

\* C8 witness: a risk check in a margin market saw an open position with
\* cash + unrealized PnL equal to the maintenance margin and enqueued no
\* liquidation, and a later one saw it strictly below and enqueued one.
C8_Witness ==
    \E i \in Engines :
        LET cs == engines[i].checks
        IN  /\ \E n \in 1..Len(cs) :
                  /\ cs[n].market_type \in {"futures", "perpetual"}
                  /\ cs[n].qty # 0
                  /\ RAdd(cs[n].cash, RMul(R(cs[n].qty),
                          RSub(cs[n].markPrice, cs[n].avgPrice)))
                       = RMul(RMul(R(AbsInt(cs[n].qty)), RAbs(cs[n].markPrice)),
                              cs[n].maintenance_margin_rate)
                  /\ cs[n].liquidations = 0
            /\ \E n \in 1..Len(cs) : cs[n].liquidations = 1

\* the risk price of an account state: the mark price in a margin market,
\* the last price otherwise, falling back to the average entry price
RiskPriceOf(st, marketType) ==
    IF marketType \in {"futures", "perpetual"} /\ st.markPrice # Null
    THEN st.markPrice
    ELSE IF st.lastPrice # Null THEN st.lastPrice
    ELSE st.position.avgPrice

\* what handling the liquidated event last dispatched did to an open
\* position of signed quantity q: a synthetic order_filled for |q| on the
\* opposite side at the liquidation price L and then a liquidated entry in
\* the trade log, cash = cash before + q * L - |penalty|, position flat
LiquidationCloseout(i) ==
    LET e == engines[i]
        ev == LastDispatched(i)
        q == e.before.position.qty
        L == IF ev.price # Null THEN ev.price
             ELSE IF e.before.lastPrice # Null THEN e.before.lastPrice
             ELSE e.before.position.avgPrice
        p == IF ev.penalty = Null THEN Zero ELSE ev.penalty
        logs == e.tradeLogs
    IN  /\ Len(logs) = e.logsBefore + 2
        /\ logs[e.logsBefore + 1].type = "order_filled"
        /\ logs[e.logsBefore + 1].qty = (IF q < 0 THEN -q ELSE q)
        /\ logs[e.logsBefore + 1].side = (IF q > 0 THEN "sell" ELSE "buy")
        /\ logs[e.logsBefore + 1].price = L
        /\ logs[e.logsBefore + 2].type = "liquidated"
        /\ logs[e.logsBefore + 2].penalty = p
        /\ e.state.cash = RSub(RAdd(e.before.cash, RMul(R(q), L)), RAbs(p))
        /\ e.state.position.qty = 0
        /\ e.state.position.avgPrice = Zero

\* C9: processing a liquidated event with an open position q closes it as
\* LiquidationCloseout says, and the penalty of an engine-generated
\* liquidation is |q| * |mark price| * max(0, liquidation_penalty_rate) for
\* the position and mark price it is applied to.
C9_LiquidationCloseoutAndPenalty ==
    \A i \in Engines :
        JustDispatched(i, "liquidated") /\ engines[i].before.position.qty # 0 =>
            LET e == engines[i]
                ev == LastDispatched(i)
                q == e.before.position.qty
                mark == RiskPriceOf(e.before, e.currentConfig.market_type)
                rate == e.currentConfig.liquidation_penalty_rate
            IN  /\ LiquidationCloseout(i)
                /\ ev.origin = "engine" =>
                      ev.penalty = RMul(RMul(R(IF q < 0 THEN -q ELSE q), RAbs(mark)),
                                        IF RLt(rate, Zero) THEN Zero ELSE rate)

\* C10: the amount of every funding_payment the engine scheduled is
\* -(N * funding_rate) with N = |position quantity| * |mark price| of the
\* position held when the payment is applied to cash.
C10_FundingOnNotionalWhenApplied ==
    \A i \in Engines :
        JustDispatched(i, "funding_payment") /\ LastDispatched(i).origin = "engine" =>
            LET e == engines[i]
                q == e.before.position.qty
                mark == RiskPriceOf(e.before, e.currentConfig.market_type)
                N == RMul(R(IF q < 0 THEN -q ELSE q), RAbs(mark))
            IN  LastDispatched(i).amount
                    = RNeg(RMul(N, e.currentConfig.funding_rate))

\* C11: after a funding_payment event has been processed, cash = cash
\* before + the event's amount, and position quantity, average entry price,
\* last price, mark price and the liquidated flag are what they were.
C11_FundingIsCashOnly ==
    \A i \in Engines :
        JustDispatched(i, "funding_payment") =>
            LET e == engines[i]
            IN  /\ e.state.cash = RAdd(e.before.cash, LastDispatched(i).amount)
                /\ e.state.position.qty = e.before.position.qty
                /\ e.state.position.avgPrice = e.before.position.avgPrice
                /\ e.state.lastPrice = e.before.lastPrice
                /\ e.state.markPrice = e.before.markPrice
                /\ e.state.liquidated = e.before.liquidated

\* C11 witness: a funding payment of a non-zero amount has been processed
\* while a position was open.
C11_Witness ==
    \E i \in Engines :
        /\ JustDispatched(i, "funding_payment")
        /\ LastDispatched(i).amount # Zero
        /\ engines[i].before.position.qty # 0
        /\ engines[i].state.cash # engines[i].before.cash

\* an adapter array of market ticks only
TicksOnly(events) ==
    events # <<>> /\ \A k \in 1..Len(events) : events[k].type = "tick"

\* the number of whole funding intervals between the first and the last
\* adapter event
IntervalsElapsed(events, intervalMs) ==
    (events[Len(events)].timestamp - events[1].timestamp) \div intervalMs

\* C12: in a finished, unliquidated perpetual run over market ticks in
\* which LongOnFirstTickStrategy opened a long at the first tick t0 and
\* held it, with funding interval I, the trade log holds exactly k
\* funding_payment entries, where t0 + k * I is the last tick whose time is
\* a multiple of I after t0 (every tick is, with I = 1).
C12_FundingPaymentPerInterval ==
    \A i \in Engines :
        LET e == engines[i]
        IN  /\ e.pc = "done" /\ ~e.state.liquidated
            /\ e.currentConfig.market_type = "perpetual"
            /\ run.strategy = "longOnFirstTick" /\ run.execution = "immediate"
            /\ TicksOnly(run.events)
            /\ e.state.position.qty # 0
            => CountType(e.tradeLogs, "funding_payment")
                  = IntervalsElapsed(run.events,
                                     e.currentConfig.funding_interval_ms)

\* the position was open at the boundary T of the event dispatched j-th:
\* some event dispatched before it and stamped at or before T left the
\* position open, and nothing dispatched in between is stamped before T
OpenAtBoundary(e, j, T) ==
    \E k \in 1..(j - 1) :
        /\ e.equitySeries[k].position_qty # 0
        /\ e.dispatched[k].timestamp <= T
        /\ \A m \in (k + 1)..(j - 1) : e.dispatched[m].timestamp >= T

\* C13: every funding_payment the engine generated is stamped with a
\* funding boundary at which the position was open.
C13_NoFundingWhileFlat ==
    \A i \in Engines :
        \A j \in 1..Len(engines[i].dispatched) :
            LET ev == engines[i].dispatched[j]
            IN  ev.type = "funding_payment" /\ ev.origin = "engine" =>
                    OpenAtBoundary(engines[i], j, ev.timestamp)

\* C14: in a spot run no funding_payment, margin_update or liquidated event
\* generated by the engine is ever pending or dispatched.
C14_SpotHasNoMarginOrFunding ==
    \A i \in Engines :
        engines[i].pc # "constructed"
        /\ engines[i].currentConfig.market_type = "spot" =>
            \A k \in 1..Len(engines[i].dispatched \o engines[i].eventQueue) :
                LET ev == (engines[i].dispatched \o engines[i].eventQueue)[k]
                IN  ev.origin = "engine" =>
                        ev.type \notin {"funding_payment", "margin_update",
                                        "liquidated"}

\* the pending events of a kind that carry the highest sequence number,
\* that is, the one enqueued last
NewestPending(q, type) ==
    {ev \in {q[k] : k \in 1..Len(q)} :
        /\ ev.type = type
        /\ \A k \in 1..Len(q) : q[k].type = type => q[k].seq <= ev.seq}

\* the risk checks made while the event last dispatched was handled
ChecksOfLast(i) ==
    {n \in 1..Len(engines[i].checks) :
        engines[i].checks[n].at = Len(engines[i].dispatched)}

\* max(0, rate), stated independently of the engine
NonNegative(rate) == IF RLt(rate, Zero) THEN Zero ELSE rate

\* C15: in a futures or perpetual run, handling a market event or an
\* order_filled event makes exactly one risk check, which enqueues exactly
\* one margin_update; that margin_update is stamped with the event's
\* timestamp and carries initial margin |qty| * |mark| * max(0,
\* initial_margin_rate), maintenance margin |qty| * |mark| * max(0,
\* maintenance_margin_rate) and unrealized PnL qty * (mark - avgPrice) of
\* the position and risk price the handler left.
C15_MarginUpdatePerMarketEventAndFill ==
    \A i \in Engines :
        /\ engines[i].dispatched # <<>>
        /\ LastDispatched(i).type \in {"tick", "candle", "order_filled"}
        /\ engines[i].currentConfig.market_type \in {"futures", "perpetual"}
        => LET e == engines[i]
               q == e.state.position.qty
               mark == RiskPriceOf(e.state, e.currentConfig.market_type)
               notional == RMul(R(IF q < 0 THEN -q ELSE q), RAbs(mark))
           IN  /\ Cardinality(ChecksOfLast(i)) = 1
               /\ \A n \in ChecksOfLast(i) : e.checks[n].marginUpdates = 1
               /\ \E mu \in NewestPending(e.eventQueue, "margin_update") :
                     /\ mu.timestamp = LastDispatched(i).timestamp
                     /\ mu.origin = "engine"
                     /\ mu.initial_margin = RMul(notional,
                            NonNegative(e.currentConfig.initial_margin_rate))
                     /\ mu.maintenance_margin = RMul(notional,
                            NonNegative(e.currentConfig.maintenance_margin_rate))
                     /\ mu.unrealized_pnl =
                            RMul(R(q), RSub(mark, e.state.position.avgPrice))
                     /\ mu.mark_price = mark

\* C15 witness: a fill in a futures run has left an open position whose
\* newest pending margin_update shows a non-zero unrealized PnL and an
\* initial margin different from the maintenance margin.
C15_Witness ==
    \E i \in Engines :
        /\ JustDispatched(i, "order_filled")
        /\ engines[i].currentConfig.market_type = "futures"
        /\ engines[i].state.position.qty # 0
        /\ \E mu \in NewestPending(engines[i].eventQueue, "margin_update") :
              /\ mu.unrealized_pnl # Zero
              /\ mu.initial_margin # mu.maintenance_margin

\* C16: after every dispatched event, unrealized PnL = position quantity *
\* (P - average entry price) and equity = cash + unrealized PnL, where P is
\* the mark price (else the last price, else the average entry price) in a
\* futures or perpetual run and the last price (else the average entry
\* price) in a spot run.
C16_EquityFromRiskPrice ==
    \A i \in Engines :
        engines[i].dispatched # <<>> =>
            LET st == engines[i].state
                P == RiskPriceOf(st, engines[i].currentConfig.market_type)
                pnl == RMul(R(st.position.qty), RSub(P, st.position.avgPrice))
            IN  /\ st.unrealizedPnl = pnl
                /\ st.equity = RAdd(st.cash, pnl)

\* C16 witness: a futures run holds a long of 1 bought at 2 with cash 1,
\* last price 2 and mark price 1: unrealized PnL is -1 and equity 0.
C16_Witness ==
    \E i \in Engines :
        LET st == engines[i].state
        IN  /\ engines[i].dispatched # <<>>
            /\ engines[i].currentConfig.market_type = "futures"
            /\ st.position = [qty |-> 1, avgPrice |-> R(2)]
            /\ st.cash = R(1) /\ st.lastPrice = R(2) /\ st.markPrice = R(1)
            /\ st.unrealizedPnl = R(-1) /\ st.equity = Zero

\* C17: the equity series has one entry per dispatched event, in dispatch
\* order; the k-th entry is stamped with the timestamp of the k-th
\* dispatched event, its equity is cash + position_qty * (risk price -
\* position_avg_price) of the figures in the entry, and the last entry
\* shows the account as the event last dispatched left it.
C17_EquityEntryPerEvent ==
    \A i \in Engines :
        LET e == engines[i]
        IN  /\ Len(e.equitySeries) = Len(e.dispatched)
            /\ \A k \in 1..Len(e.equitySeries) :
                  LET entry == e.equitySeries[k]
                  IN  /\ entry.timestamp = e.dispatched[k].timestamp
                      /\ entry.equity =
                            RAdd(entry.cash,
                                 RMul(R(entry.position_qty),
                                      RSub(entry.mark_price,
                                           entry.position_avg_price)))
            /\ e.dispatched # <<>> =>
                  LET last == e.equitySeries[Len(e.equitySeries)]
                  IN  /\ last.cash = e.state.cash
                      /\ last.position_qty = e.state.position.qty
                      /\ last.position_avg_price = e.state.position.avgPrice
                      /\ last.mark_price =
                            RiskPriceOf(e.state, e.currentConfig.market_type)
                      /\ last.equity = e.state.equity

\* C17 witness: a margin_update, which moves neither cash nor position, has
\* been dispatched as at least the fourth event of a run and has appended
\* an entry for an open position whose risk price is not its entry price.
C17_Witness ==
    \E i \in Engines :
        LET e == engines[i]
        IN  /\ JustDispatched(i, "margin_update")
            /\ Len(e.equitySeries) >= 4
            /\ e.equitySeries[Len(e.equitySeries)].position_qty # 0
            /\ e.equitySeries[Len(e.equitySeries)].mark_price
                  # e.equitySeries[Len(e.equitySeries)].position_avg_price
            /\ e.equitySeries[Len(e.equitySeries)].equity
                  # e.equitySeries[Len(e.equitySeries)].cash

\* C18: a run call with a missing, empty or blank symbol, timeframe or
\* market_type, an unknown market_type, start_date after end_date, a
\* negative or infinite initial_cash or a non-integer random_seed, made on
\* an engine object whose earlier run has returned, is rejected and leaves
\* the engine object as it was: no reset, no call of the adapter, no event
\* dispatched, state, logs and equity series of the earlier run unchanged.
C18_InvalidParamsRejectedEarly ==
    [][\A i \in Engines :
          engines[i].pc = "done" /\ engines'[i] # engines[i] =>
              /\ engines'[i] = [engines[i] EXCEPT !.rejected = @ + 1]
              /\ engines'[i].loads = engines[i].loads
              /\ engines'[i].state = engines[i].state
              /\ engines'[i].tradeLogs = engines[i].tradeLogs
              /\ engines'[i].equitySeries = engines[i].equitySeries
              /\ engines'[i].dispatched = engines[i].dispatched]_vars

\* C18 witness: a run that left an open position, trade-log entries and an
\* equity series has been followed by a rejected run call, and all of it is
\* still there.
C18_Witness ==
    \E i \in Engines :
        /\ engines[i].rejected = 1
        /\ engines[i].pc = "done"
        /\ engines[i].loads = 1
        /\ engines[i].state.position.qty # 0
        /\ engines[i].tradeLogs # <<>>
        /\ Len(engines[i].equitySeries) >= 2

\* an adapter event without a type, without a timestamp, or with a
\* timestamp that cannot be parsed
BadEvent(event) ==
    \/ event.type \in {Absent, ""}
    \/ event.timestamp \in {NullTimestamp, UnparsableTimestamp}

\* C19: when the array the adapter returned holds a bad event at any place,
\* the run call has failed, nothing has been dispatched, and the trade log
\* and the equity series are empty.
C19_BadEventRejectsRun ==
    \A i \in Engines :
        /\ engines[i].pc # "constructed"
        /\ \E k \in 1..Len(run.events) : BadEvent(run.events[k])
        => /\ engines[i].pc = "failed"
           /\ engines[i].dispatched = <<>>
           /\ engines[i].eventQueue = <<>>
           /\ engines[i].tradeLogs = <<>>
           /\ engines[i].equitySeries = <<>>

\* C19 witness: the run call failed on an array of three events whose
\* first two are good and whose last has a timestamp that cannot be parsed.
C19_Witness ==
    \E i \in Engines :
        /\ engines[i].pc = "failed"
        /\ engines[i].loads = 1
        /\ Len(run.events) = 3
        /\ ~BadEvent(run.events[1]) /\ ~BadEvent(run.events[2])
        /\ run.events[3].timestamp = UnparsableTimestamp

\* the price hint of an order: the first of the market's last, mid and
\* plain price that is there for a market order, the tick-rounded limit
\* price for a limit order
PriceHint(call, constraints) ==
    IF call.method = "executeMarketOrder"
    THEN (IF call.args.market.lastPrice # Null THEN call.args.market.lastPrice
          ELSE IF call.args.market.midPrice # Null THEN call.args.market.midPrice
          ELSE call.args.market.price)
    ELSE roundToTick(call.args.price, constraints.tickSize)

\* the reason an order of lot-rounded quantity rq and price hint is to be
\* rejected for, in the order invalid_qty, min_qty_violation,
\* max_qty_violation, min_notional_violation; "ok" if for none
ExpectedReason(constraints, rq, hint) ==
    IF RLe(rq, Zero) THEN "invalid_qty"
    ELSE IF constraints.minQty # Null /\ RLt(rq, constraints.minQty)
    THEN "min_qty_violation"
    ELSE IF constraints.maxQty # Null /\ RLt(constraints.maxQty, rq)
    THEN "max_qty_violation"
    ELSE IF hint # Null /\ constraints.minNotional # Null
            /\ RLt(RMul(rq, hint), constraints.minNotional)
    THEN "min_notional_violation"
    ELSE "ok"

\* C20: executeMarketOrder and submitLimitOrder return, for an order that
\* fails validation, a result of status rejected with the first reason that
\* applies, and for no other order; a rejected order has no fills and has
\* left the ledger, the stored orders and the id counter as they were.
C20_RejectionIsAResult ==
    fillModel.calls > 0 =>
        LET expected ==
                ExpectedReason(fillModel.constraints,
                    roundToLot(fillModel.lastCall.args.qty, fillModel.constraints.stepSize),
                    PriceHint(fillModel.lastCall, fillModel.constraints))
        IN  /\ fillModel.result.status \in {"rejected", "filled", "partial", "accepted"}
            /\ (fillModel.result.status = "rejected") <=> (expected # "ok")
            /\ fillModel.result.status = "rejected" =>
                  /\ fillModel.result.reason = expected
                  /\ fillModel.result.fills = <<>>
                  /\ fillModel.ledger = fillModel.prev.ledger
                  /\ fillModel.orders = fillModel.prev.orders
                  /\ fillModel.id = fillModel.prev.id

\* C20 witness: after a market order that was filled, took an id and left
\* a position in the ledger, an order that passes the quantity bounds is
\* rejected for its notional.
C20_Witness ==
    /\ fillModel.calls = 2
    /\ fillModel.prev.id = 2
    /\ fillModel.prev.ledger.qty # Zero
    /\ fillModel.result.status = "rejected"
    /\ fillModel.result.reason = "min_notional_violation"
    /\ fillModel.ledger.qty # Zero

RECURSIVE SumQty(_)
SumQty(fills) ==
    IF fills = <<>> THEN Zero ELSE RAdd(Head(fills).qty, SumQty(Tail(fills)))

\* the levels a market order of this side is matched against
MatchedSide(o) == IF o.side = "buy" THEN o.orderbook.asks ELSE o.orderbook.bids

\* C21: an accepted market order has filledQty + remainingQty = requestedQty,
\* the lot-rounded quantity; filledQty is the sum of the fill quantities;
\* its status is filled exactly when remainingQty is 0; and it is partial
\* only when the fills have taken every level of the matched side and the
\* market has neither a last, a mid nor a plain price.
C21_MarketOrderAccounting ==
    (fillModel.calls > 0 /\ fillModel.result.status # "rejected") =>
        /\ fillModel.result.status \in {"filled", "partial"}
        /\ fillModel.result.requestedQty =
              roundToLot(fillModel.lastCall.args.qty, fillModel.constraints.stepSize)
        /\ RAdd(fillModel.result.filledQty, fillModel.result.remainingQty) =
              fillModel.result.requestedQty
        /\ fillModel.result.filledQty = SumQty(fillModel.result.fills)
        /\ (fillModel.result.status = "filled")
              <=> (fillModel.result.remainingQty = Zero)
        /\ fillModel.result.status = "partial" =>
              /\ SumQty(fillModel.result.fills) =
                    SumQty(MatchedSide(fillModel.lastCall.args))
              /\ fillModel.lastCall.args.market.lastPrice = Null
              /\ fillModel.lastCall.args.market.midPrice = Null
              /\ fillModel.lastCall.args.market.price = Null

\* C21 witness: a market order for 3 that took both levels of the book and,
\* for want of a reference price, was left partial with 1 remaining.
C21_Witness ==
    /\ fillModel.calls > 0
    /\ fillModel.result.status = "partial"
    /\ Len(fillModel.result.fills) = 2
    /\ fillModel.result.requestedQty = R(3)
    /\ fillModel.result.remainingQty = R(1)

\* the first of the levels with the best price: the lowest for a buy, the
\* highest for a sell
BestIndex(levels, side) ==
    CHOOSE k \in 1..Len(levels) :
        /\ \A j \in 1..Len(levels) :
              IF side = "buy" THEN RLe(levels[k].price, levels[j].price)
              ELSE RLe(levels[j].price, levels[k].price)
        /\ \A j \in 1..(k - 1) : levels[j].price # levels[k].price

\* quantity and price of the fills a quantity takes from the levels, best
\* price first, each min(remaining, level quantity) at the tick-rounded price
RECURSIVE ExpectedBookFills(_, _, _, _)
ExpectedBookFills(levels, side, remaining, tickSize) ==
    IF levels = <<>> \/ remaining = Zero THEN <<>>
    ELSE LET k == BestIndex(levels, side)
         IN  <<[qty |-> RMin(remaining, levels[k].qty),
                price |-> roundToTick(levels[k].price, tickSize)]>>
             \o ExpectedBookFills(
                    SubSeq(levels, 1, k - 1) \o SubSeq(levels, k + 1, Len(levels)),
                    side, RSub(remaining, RMin(remaining, levels[k].qty)), tickSize)

\* the one further fill of what the book left, at the tick-rounded reference
\* price plus slippage, if there is a reference price
ExpectedFallback(o, remainder, tickSize) ==
    IF remainder = Zero \/ MarketRefPrice(o.market) = Null THEN <<>>
    ELSE <<[qty |-> remainder,
            price |-> roundToTick(
                RAdd(MarketRefPrice(o.market),
                     slippageImpact(o.slippageModel, o.side, Num(o.market.spread),
                                    remainder, Coalesce(o.market.avgVolume, remainder))),
                tickSize)]>>

\* C22: the fills of an accepted market order are the book's levels taken
\* best price first, each for min(remaining, level quantity) at the
\* tick-rounded level price, followed, if a remainder is left after all
\* levels, by one fill of it at tickRound(reference price + slippage); every
\* fill is taker liquidity and pays the taker fee rate on its notional.
C22_MarketOrderFills ==
    (fillModel.calls > 0 /\ fillModel.result.status # "rejected") =>
        LET o == fillModel.lastCall.args
            fills == fillModel.result.fills
            book == ExpectedBookFills(MatchedSide(o), o.side,
                        fillModel.result.requestedQty, fillModel.constraints.tickSize)
        IN  /\ [k \in 1..Len(fills) |-> [qty |-> fills[k].qty, price |-> fills[k].price]]
                  = book \o ExpectedFallback(o,
                                RSub(fillModel.result.requestedQty, SumQty(book)),
                                fillModel.constraints.tickSize)
            /\ \A k \in 1..Len(fills) :
                  /\ fills[k].liquidity = "taker"
                  /\ fills[k].feeRate = fillModel.fees.taker
                  /\ fills[k].fee =
                        RMul(RMul(fills[k].qty, fills[k].price), fillModel.fees.taker)

\* C22 witness: buy 3 against one ask of 1 at 100, reference price 101 and
\* fixed slippage 1, tick size 0.1: the fills are 1 at 100, then 2 at 102.
C22_Witness ==
    /\ fillModel.calls > 0
    /\ fillModel.constraints.tickSize = Rat(1, 10)
    /\ fillModel.lastCall.args.side = "buy"
    /\ fillModel.lastCall.args.qty = R(3)
    /\ fillModel.lastCall.args.market.lastPrice = R(101)
    /\ fillModel.lastCall.args.slippageModel.fixed = R(1)
    /\ fillModel.lastCall.args.orderbook.asks = <<[price |-> R(100), qty |-> R(1)]>>
    /\ Len(fillModel.result.fills) = 2
    /\ fillModel.result.fills[1].qty = R(1)
    /\ fillModel.result.fills[1].price = R(100)
    /\ fillModel.result.fills[2].qty = R(2)
    /\ fillModel.result.fills[2].price = R(102)
    /\ fillModel.result.fills[2].liquidity = "taker"

\* the fills and the cancellations a market event reported for an order
FillsOf(result, orderId) ==
    SelectSeq(result.fills, LAMBDA f : f.orderId = orderId)

CancellationsOf(result, orderId) ==
    SelectSeq(result.cancellations, LAMBDA c : c.orderId = orderId)

\* C23: a limit order submitted at time t to a FillModel with order latency
\* L is left as it is, open and without a new fill, by every call but a
\* market event with timestamp >= t + L; a market event with a timestamp
\* below t + L reports neither a fill nor a cancellation for it.
C23_NoFillBeforeActivation ==
    \A k \in 1..Len(fillModel.prev.orders) :
        (/\ fillModel.prev.orders[k].status = "open"
         /\ ~(/\ fillModel.lastCall.method = "processMarketEvent"
              /\ fillModel.lastCall.args.timestamp >=
                    fillModel.prev.orders[k].createdAt + fillModel.orderLatencyMs))
        => /\ fillModel.orders[k].status = "open"
           /\ fillModel.orders[k].fills = fillModel.prev.orders[k].fills
           /\ fillModel.orders[k].remainingQty = fillModel.prev.orders[k].remainingQty
           /\ fillModel.lastCall.method = "processMarketEvent" =>
                 /\ FillsOf(fillModel.result, fillModel.orders[k].orderId) = <<>>
                 /\ CancellationsOf(fillModel.result, fillModel.orders[k].orderId) = <<>>

\* C23 witness: a buy order at 2 with latency 1, whose TTL has run out and
\* whose cancel request is effective, is still open after a market event at
\* its submission time with an ask of 2 in the book.
C23_Witness ==
    /\ fillModel.lastCall.method = "processMarketEvent"
    /\ fillModel.orderLatencyMs = 1
    /\ Len(fillModel.orders) = 1
    /\ fillModel.orders[1].side = "buy"
    /\ fillModel.orders[1].status = "open"
    /\ fillModel.lastCall.args.timestamp < fillModel.orders[1].activeAt
    /\ fillModel.orders[1].expiresAt # NoneAt
    /\ fillModel.orders[1].expiresAt <= fillModel.lastCall.args.timestamp
    /\ fillModel.orders[1].cancelEffectiveAt # NoneAt
    /\ fillModel.orders[1].cancelEffectiveAt <= fillModel.lastCall.args.timestamp
    /\ fillModel.lastCall.args.bestAsk = R(2)
    /\ fillModel.lastCall.args.orderbook.asks # <<>>

\* an order as a market event at this timestamp is to cancel it: "" if not
CancelDue(order, timestamp) ==
    IF order.cancelEffectiveAt # NoneAt /\ timestamp >= order.cancelEffectiveAt
    THEN "user_cancel"
    ELSE IF order.expiresAt # NoneAt /\ timestamp >= order.expiresAt
    THEN "ttl_timeout"
    ELSE ""

\* C24: at a market event at or after its activation, an open limit order
\* whose cancel effective time is reached is cancelled for user_cancel,
\* otherwise one whose expiry, submission time + ttl, is reached is cancelled
\* for ttl_timeout; the event reports that one cancellation and no fill for
\* it, and the order keeps the fills and the remaining quantity it had.
C24_CancelBeforeFill ==
    /\ (/\ fillModel.lastCall.method = "submitLimitOrder"
        /\ fillModel.result.status = "accepted"
        /\ fillModel.lastCall.args.ttlMs # NoneAt)
       => fillModel.orders[Len(fillModel.orders)].expiresAt =
             fillModel.lastCall.args.timestamp + fillModel.lastCall.args.ttlMs
    /\ fillModel.lastCall.method = "processMarketEvent" =>
         \A k \in 1..Len(fillModel.prev.orders) :
            (/\ fillModel.prev.orders[k].status = "open"
             /\ fillModel.lastCall.args.timestamp >=
                   fillModel.prev.orders[k].createdAt + fillModel.orderLatencyMs
             /\ CancelDue(fillModel.prev.orders[k],
                          fillModel.lastCall.args.timestamp) # "")
            => /\ fillModel.orders[k] =
                     [fillModel.prev.orders[k] EXCEPT !.status = "cancelled"]
               /\ CancellationsOf(fillModel.result, fillModel.orders[k].orderId) =
                     <<[orderId |-> fillModel.orders[k].orderId,
                        reason |-> CancelDue(fillModel.prev.orders[k],
                                             fillModel.lastCall.args.timestamp),
                        timestamp |-> fillModel.lastCall.args.timestamp]>>
               /\ FillsOf(fillModel.result, fillModel.orders[k].orderId) = <<>>

\* C24 witness: a buy order at 2 that was filled for 1 of 2, with its cancel
\* effective and its TTL run out, is cancelled for user_cancel at a market
\* event with an ask of 2 in the book, and keeps its fill.
C24_Witness ==
    /\ fillModel.lastCall.method = "processMarketEvent"
    /\ Len(fillModel.orders) = 1
    /\ fillModel.orders[1].side = "buy"
    /\ fillModel.orders[1].status = "cancelled"
    /\ Len(fillModel.orders[1].fills) = 1
    /\ fillModel.orders[1].remainingQty = R(1)
    /\ fillModel.orders[1].expiresAt # NoneAt
    /\ fillModel.orders[1].expiresAt <= fillModel.lastCall.args.timestamp
    /\ fillModel.orders[1].cancelEffectiveAt # NoneAt
    /\ fillModel.result.cancellations # <<>>
    /\ fillModel.result.cancellations[1].reason = "user_cancel"
    /\ fillModel.lastCall.args.bestAsk = R(2)
    /\ fillModel.lastCall.args.orderbook.asks # <<>>

\* the book of a market event has a level an order can be filled from
Fillable(order, marketEvent) ==
    /\ order.mode = "aggressive" \/ Crossed(order, marketEvent)
    /\ \E k \in 1..Len(IF order.side = "buy" THEN EventBook(marketEvent).asks
                       ELSE EventBook(marketEvent).bids) :
          IF order.side = "buy"
          THEN RLe(EventBook(marketEvent).asks[k].price, order.price)
          ELSE RLe(order.price, EventBook(marketEvent).bids[k].price)

C27_FillWithinLimit ==
    /\ (/\ fillModel.lastCall.method = "submitLimitOrder"
        /\ fillModel.result.status = "accepted")
       => fillModel.orders[Len(fillModel.orders)].price =
             R(RoundHalfUp(fillModel.lastCall.args.price))
    /\ fillModel.lastCall.method = "processMarketEvent" =>
         \A k \in 1..Len(fillModel.result.fills) :
            \A j \in 1..Len(fillModel.orders) :
               fillModel.orders[j].orderId = fillModel.result.fills[k].orderId =>
                  IF fillModel.orders[j].side = "buy"
                  THEN RLe(fillModel.result.fills[k].price, fillModel.orders[j].price)
                  ELSE RLe(fillModel.orders[j].price, fillModel.result.fills[k].price)

\* C27 witness: a buy order at 2 is filled from an ask at 3/2, below an ask
\* at 5/2 it leaves alone, at the tick-rounded price 2.
C27_Witness ==
    /\ fillModel.lastCall.method = "processMarketEvent"
    /\ fillModel.lastCall.args.bestAsk = Rat(3, 2)
    /\ Len(fillModel.lastCall.args.orderbook.asks) = 2
    /\ Len(fillModel.orders) = 1
    /\ fillModel.orders[1].side = "buy"
    /\ fillModel.orders[1].price = R(2)
    /\ Len(fillModel.result.fills) = 1
    /\ fillModel.result.fills[1].price = R(2)

\* the quantity of a fill, signed by its side
FillSigned(o) == IF o.side = "buy" THEN RAbs(o.qty) ELSE RNeg(RAbs(o.qty))

\* C28: applyFill returns the change it makes to realizedPnl and adds the
\* signed fill quantity to the position; a fill from flat or in the
\* position's direction returns -fee and sets avgPrice to the
\* quantity-weighted blend (0 when the position stays flat); a fill against
\* the position returns min(|prior qty|, |fill qty|) x (price - avgPrice)
\* signed by the prior direction, minus fee, and leaves avgPrice as it was if
\* the position keeps its sign, sets it to the fill price if the sign flips
\* and to 0 if the position lands at 0.
C28_LedgerApplyFill ==
    (fillModel.calls > 0 /\ fillModel.lastCall.method = "applyFill") =>
        LET o == fillModel.lastCall.args
            prior == fillModel.prev.ledger
            new == fillModel.ledger
            signed == FillSigned(o)
            closed == IF RLt(RAbs(signed), RAbs(prior.qty)) THEN RAbs(signed)
                      ELSE RAbs(prior.qty)
        IN  /\ fillModel.result.value = RSub(new.realizedPnl, prior.realizedPnl)
            /\ new.qty = RAdd(prior.qty, signed)
            /\ IF prior.qty = Zero \/ (RLt(Zero, prior.qty) <=> RLt(Zero, signed))
               THEN /\ fillModel.result.value = RNeg(o.fee)
                    /\ RMul(new.avgPrice, RAbs(new.qty)) =
                          RAdd(RMul(RAbs(prior.qty), prior.avgPrice),
                               RMul(RAbs(signed), o.price))
               ELSE /\ fillModel.result.value =
                          RSub(RMul(RMul(closed, RSub(o.price, prior.avgPrice)),
                                    IF RLt(Zero, prior.qty) THEN R(1) ELSE R(-1)),
                               o.fee)
                    /\ new.avgPrice =
                          IF new.qty = Zero THEN Zero
                          ELSE IF RLt(Zero, new.qty) <=> RLt(Zero, prior.qty)
                          THEN prior.avgPrice
                          ELSE o.price

\* C28 witness: after buy 2 at 100, sell 1 at 110 with zero fee realizes 10
\* and leaves 1 at an average price of 100.
C28_Witness ==
    /\ fillModel.calls = 2
    /\ fillModel.lastCall.method = "applyFill"
    /\ fillModel.prev.ledger.qty = R(2)
    /\ fillModel.prev.ledger.avgPrice = R(100)
    /\ fillModel.lastCall.args.side = "sell"
    /\ fillModel.lastCall.args.qty = R(1)
    /\ fillModel.lastCall.args.price = R(110)
    /\ fillModel.lastCall.args.fee = Zero
    /\ fillModel.result.value = R(10)
    /\ fillModel.ledger.qty = R(1)
    /\ fillModel.ledger.avgPrice = R(100)

\* C29: calculateMarginSnapshot returns positionNotional = |qty| x |mark|,
\* initialMargin = positionNotional x max(0, initial rate), maintenanceMargin
\* = positionNotional x max(0, maintenance rate) and unrealizedPnl = qty x
\* (mark - avgPrice), mark being avgPrice when the mark price is missing or
\* not finite, so that unrealizedPnl is then 0; a rate left out counts as 0.
C29_MarginSnapshot ==
    margin.calls > 0 =>
        LET mark == IF margin.markPrice.d = 0 THEN margin.position.avgPrice
                    ELSE margin.markPrice
            notional == RMul(R(IF margin.position.qty < 0 THEN -margin.position.qty
                               ELSE margin.position.qty),
                             IF mark.n < 0 THEN RNeg(mark) ELSE mark)
            initialRate == IF margin.initialMarginRate = Null
                              \/ margin.initialMarginRate.n < 0
                           THEN Zero ELSE margin.initialMarginRate
            maintenanceRate == IF margin.maintenanceMarginRate = Null
                                  \/ margin.maintenanceMarginRate.n < 0
                               THEN Zero ELSE margin.maintenanceMarginRate
        IN  /\ margin.result.positionNotional = notional
            /\ margin.result.initialMargin = RMul(notional, initialRate)
            /\ margin.result.maintenanceMargin = RMul(notional, maintenanceRate)
            /\ margin.result.unrealizedPnl =
                  RMul(R(margin.position.qty), RSub(mark, margin.position.avgPrice))
            /\ margin.markPrice.d = 0 => margin.result.unrealizedPnl = Zero

\* C29 witness: qty 3, avgPrice 100, mark 90, rates 0.1 and 0.05 give 270,
\* 27, 13.5 and -30.
C29_Witness ==
    /\ margin.calls > 0
    /\ margin.position = [qty |-> 3, avgPrice |-> R(100)]
    /\ margin.markPrice = R(90)
    /\ margin.initialMarginRate = Rat(1, 10)
    /\ margin.maintenanceMarginRate = Rat(1, 20)
    /\ margin.result.positionNotional = R(270)
    /\ margin.result.initialMargin = R(27)
    /\ margin.result.maintenanceMargin = Rat(27, 2)
    /\ margin.result.unrealizedPnl = R(-30)

\* the PositionLedger after the order_filled entries of a trade log, each
\* applied as a fill with zero fee
RECURSIVE LedgerOfFills(_)
LedgerOfFills(logs) ==
    IF logs = <<>> THEN NewLedger
    ELSE IF logs[Len(logs)].type # "order_filled"
    THEN LedgerOfFills(SubSeq(logs, 1, Len(logs) - 1))
    ELSE applyFill(LedgerOfFills(SubSeq(logs, 1, Len(logs) - 1)),
                   logs[Len(logs)].side, R(logs[Len(logs)].qty),
                   logs[Len(logs)].price, Zero)

\* C30: as long as a run has had no liquidation, the position the engine
\* logs after each order_filled event has the quantity and the average
\* price of a PositionLedger to which the same fills were applied with zero
\* fee.
C30_EngineFillsAsLedger ==
    \A i \in Engines :
        \A k \in 1..Len(engines[i].tradeLogs) :
            (/\ engines[i].tradeLogs[k].type = "order_filled"
             /\ \A j \in 1..k :
                   /\ engines[i].tradeLogs[j].type # "liquidated"
                   /\ engines[i].tradeLogs[j].type = "order_filled" =>
                         engines[i].tradeLogs[j].price # Null)
            => /\ R(engines[i].tradeLogs[k].position_after.qty) =
                     LedgerOfFills(SubSeq(engines[i].tradeLogs, 1, k)).qty
               /\ engines[i].tradeLogs[k].position_after.avgPrice =
                     LedgerOfFills(SubSeq(engines[i].tradeLogs, 1, k)).avgPrice

\* C31: all run state is discarded at the start of the next run: the run
\* calls on one engine object with the same adapter events and the same
\* parameters return the same trade logs, equity series and final state.
C31_RunStateDiscarded ==
    \A i \in Engines :
        \A a, b \in 1..Len(engines[i].returned) :
            engines[i].returned[a] = engines[i].returned[b]

\* the events of the queue after a step of engine object i that the step
\* has enqueued, and those that were in the queue before
EmittedBy(i) ==
    SelectSeq(engines'[i].eventQueue, LAMBDA ev : ev.seq >= engines[i].seq)

KeptBy(i) ==
    SelectSeq(engines'[i].eventQueue, LAMBDA ev : ev.seq < engines[i].seq)

\* C32: the default execution answers a signal that has a side and a
\* non-zero quantity with one order_submitted at the signal's timestamp and
\* one order_filled of the same order id 0..99 ms later, and a signal that
\* lacks one of them with nothing, taking no order id and no random value;
\* in the trade log every order_filled of the default execution comes after
\* the order_submitted of its order id.
C32_DefaultExecution ==
    /\ [][\A i \in Engines :
            /\ engines[i].pc = "running"
            /\ run.execution = "default"
            /\ NextEvent(engines[i]).type = "signal_generated"
            /\ engines'[i] # engines[i]
            => /\ KeptBy(i) = Tail(engines[i].eventQueue)
               /\ IF NextEvent(engines[i]).side # "none"
                     /\ NextEvent(engines[i]).qty # 0
                  THEN /\ Len(EmittedBy(i)) = 2
                       /\ \E a, b \in 1..2 :
                            /\ EmittedBy(i)[a].type = "order_submitted"
                            /\ EmittedBy(i)[a].timestamp
                                  = NextEvent(engines[i]).timestamp
                            /\ EmittedBy(i)[b].type = "order_filled"
                            /\ EmittedBy(i)[b].order_id = EmittedBy(i)[a].order_id
                            /\ EmittedBy(i)[b].timestamp
                                  - NextEvent(engines[i]).timestamp \in 0..99
                       /\ engines'[i].orderCounter = engines[i].orderCounter + 1
                  ELSE /\ EmittedBy(i) = <<>>
                       /\ engines'[i].orderCounter = engines[i].orderCounter
                       /\ engines'[i].rng = engines[i].rng]_vars
    /\ [](\A i \in Engines :
            \A k \in 1..Len(engines[i].tradeLogs) :
               /\ engines[i].tradeLogs[k].type = "order_filled"
               /\ engines[i].tradeLogs[k].order_id.kind = "order"
               => \E j \in 1..(k - 1) :
                     /\ engines[i].tradeLogs[j].type = "order_submitted"
                     /\ engines[i].tradeLogs[j].order_id
                           = engines[i].tradeLogs[k].order_id)

\* C32 witness: a signal without a side or with quantity 0 has been
\* dispatched, and after it the trade log holds the order_filled of a
\* default-execution order later than its order_submitted.
C32_Witness ==
    \E i \in Engines :
        /\ run.execution = "default"
        /\ \E d \in 1..Len(engines[i].dispatched) :
              /\ engines[i].dispatched[d].type = "signal_generated"
              /\ engines[i].dispatched[d].side = "none"
                    \/ engines[i].dispatched[d].qty = 0
        /\ \E j, k \in 1..Len(engines[i].tradeLogs) :
              /\ j < k
              /\ engines[i].tradeLogs[j].type = "order_submitted"
              /\ engines[i].tradeLogs[k].type = "order_filled"
              /\ engines[i].tradeLogs[k].order_id.kind = "order"
              /\ engines[i].tradeLogs[k].order_id = engines[i].tradeLogs[j].order_id
              /\ engines[i].tradeLogs[k].timestamp > engines[i].tradeLogs[j].timestamp

\* C33: in a futures or perpetual run whose market events carry no mark
\* price, after each market event the mark price used for unrealized PnL,
\* for margin and for the liquidation check is the price of that event.
C33_MarkFollowsLastPrice ==
    \A i \in Engines :
        /\ isMarginMarket(run.params.market_type)
        /\ \A k \in 1..Len(run.events) : run.events[k].mark_price = Null
        /\ JustDispatched(i, "tick")
        /\ LastDispatched(i).price # Null
        => /\ getRiskPrice(engines[i]) = LastDispatched(i).price
           /\ engines[i].checks[Len(engines[i].checks)].markPrice
                 = LastDispatched(i).price
           /\ engines[i].equitySeries[Len(engines[i].equitySeries)].mark_price
                 = LastDispatched(i).price

\* C34: a liquidation the engine generated is applied only where the
\* liquidation condition still holds: when its liquidated event is
\* processed, the position is open and cash + unrealized PnL at the current
\* mark price is below the current maintenance margin.
C34_LiquidationStillDue ==
    \A i \in Engines :
        JustDispatched(i, "liquidated") /\ LastDispatched(i).origin = "engine" =>
            ConditionAt(
                [market_type |-> engines[i].currentConfig.market_type,
                 qty |-> engines[i].before.position.qty,
                 cash |-> engines[i].before.cash,
                 markPrice |-> RiskPriceOf(engines[i].before,
                                  engines[i].currentConfig.market_type),
                 avgPrice |-> engines[i].before.position.avgPrice,
                 maintenance_margin_rate |->
                     engines[i].currentConfig.maintenance_margin_rate])

\* the levels of the book of a market event that fills of this side are
\* taken from
LevelsFor(marketEvent, side) ==
    IF side = "buy" THEN EventBook(marketEvent).asks
    ELSE EventBook(marketEvent).bids

\* C35: within one processMarketEvent call the quantity filled at a level
\* of the book, summed over the limit orders the call evaluates, does not
\* exceed the quantity of the level (levels that round to one tick price
\* taken together).
C35_LevelNotOverfilled ==
    fillModel.lastCall.method = "processMarketEvent" =>
        \A side \in {"buy", "sell"} :
            \A k \in 1..Len(LevelsFor(fillModel.lastCall.args, side)) :
                RLe(SumQty(SelectSeq(fillModel.result.fills,
                        LAMBDA f : /\ f.side = side
                                   /\ f.price = roundToTick(
                                        LevelsFor(fillModel.lastCall.args, side)[k].price,
                                        fillModel.constraints.tickSize))),
                    SumQty(SelectSeq(LevelsFor(fillModel.lastCall.args, side),
                        LAMBDA level :
                            roundToTick(level.price, fillModel.constraints.tickSize)
                              = roundToTick(
                                  LevelsFor(fillModel.lastCall.args, side)[k].price,
                                  fillModel.constraints.tickSize))))

\* what a trade-log entry says was done to cash: a fill takes signed
\* quantity * price, a funding payment adds its amount, a liquidation takes
\* the absolute value of its penalty
CashChange(entry) ==
    CASE entry.type = "order_filled" ->
            RNeg(RMul(R(SignedQuantity(entry.side, entry.qty)),
                      IF entry.price = Null THEN Zero ELSE entry.price))
      [] entry.type = "funding_payment" ->
            IF entry.amount = Null THEN Zero ELSE entry.amount
      [] entry.type = "liquidated" ->
            RNeg(RAbs(IF entry.penalty = Null THEN Zero ELSE entry.penalty))
      [] OTHER -> Zero

RECURSIVE CashOfLogs(_, _)
CashOfLogs(cash, logs) ==
    IF logs = <<>> THEN cash
    ELSE CashOfLogs(RAdd(cash, CashChange(Head(logs))), Tail(logs))

\* C36: during and at the end of a run, cash is initial_cash minus signed
\* quantity * price of every order_filled entry of the trade log, plus the
\* amounts of the funding_payment entries, minus the absolute value of the
\* penalty of the liquidated entry: nothing else changes cash.
C36_CashFromTradeLog ==
    \A i \in Engines :
        engines[i].pc \in {"running", "done"} =>
            engines[i].state.cash
              = CashOfLogs(IF engines[i].currentConfig.initial_cash = Null THEN Zero
                           ELSE engines[i].currentConfig.initial_cash,
                           engines[i].tradeLogs)

\* C36 witness: a run has returned whose trade log holds a fill, a funding
\* payment with a non-zero amount and a liquidation with a non-zero penalty.
C36_Witness ==
    \E i \in Engines :
        /\ engines[i].pc = "done"
        /\ \E a, b, c \in 1..Len(engines[i].tradeLogs) :
              /\ engines[i].tradeLogs[a].type = "order_filled"
              /\ engines[i].tradeLogs[a].order_id.kind # "liq"
              /\ engines[i].tradeLogs[b].type = "funding_payment"
              /\ engines[i].tradeLogs[b].amount \notin {Null, Zero}
              /\ engines[i].tradeLogs[c].type = "liquidated"
              /\ engines[i].tradeLogs[c].penalty \notin {Null, Zero}
              /\ engines[i].state.cash # engines[i].currentConfig.initial_cash

AcceptedQty ==
    IF fillModel.lastCall.method = "executeMarketOrder"
    THEN {fillModel.result.requestedQty}
    ELSE {fillModel.orders[k].qty : k \in
             {j \in 1..Len(fillModel.orders) :
                 fillModel.orders[j].orderId = fillModel.result.orderId}}

OrderAccepted ==
    /\ fillModel.lastCall.method \in {"executeMarketOrder", "submitLimitOrder"}
    /\ fillModel.result.status \in {"filled", "partial", "accepted"}

RequestedLatency(latencyMs) ==
    IF latencyMs = UndefinedLatency
    THEN (IF fillModel.defaultCancelLatencyMs < 0 THEN 0
          ELSE fillModel.defaultCancelLatencyMs)
    ELSE IF latencyMs < 0 THEN 0 ELSE latencyMs

\* C39 as stated: once a cancel has been requested for an open limit order,
\* a later requestCancel on it does not postpone the effective time.
C39_CancelNotPostponed ==
    fillModel.lastCall.method = "requestCancel" =>
        \A k \in 1..Len(fillModel.prev.orders) :
            /\ fillModel.prev.orders[k].orderId = fillModel.lastCall.args.orderId
            /\ fillModel.prev.orders[k].status = "open"
            /\ fillModel.prev.orders[k].cancelEffectiveAt # NoneAt
            => fillModel.orders[k].cancelEffectiveAt
                  <= fillModel.prev.orders[k].cancelEffectiveAt

\* C39 amended: every requestCancel on an open order sets its effective
\* time to the timestamp of the request + its latency, in place of the
\* effective time of an earlier request; a market event that evaluates the
\* order cancels it for user_cancel exactly when the event is at or after
\* the effective time the order then has.
C39_LatestCancelRequestCounts ==
    /\ fillModel.lastCall.method = "requestCancel" =>
          \A k \in 1..Len(fillModel.prev.orders) :
             /\ fillModel.prev.orders[k].orderId = fillModel.lastCall.args.orderId
             /\ fillModel.prev.orders[k].status = "open"
             => /\ fillModel.orders[k].cancelEffectiveAt
                      = fillModel.lastCall.args.timestamp
                          + RequestedLatency(fillModel.lastCall.args.latencyMs)
                /\ fillModel.result.effectiveAt = fillModel.orders[k].cancelEffectiveAt
                /\ fillModel.orders[k].status = "open"
    /\ fillModel.lastCall.method = "processMarketEvent" =>
          \A k \in 1..Len(fillModel.prev.orders) :
             /\ fillModel.prev.orders[k].status = "open"
             /\ fillModel.lastCall.args.timestamp >= fillModel.prev.orders[k].activeAt
             => ((\E c \in 1..Len(fillModel.result.cancellations) :
                     /\ fillModel.result.cancellations[c].orderId
                           = fillModel.prev.orders[k].orderId
                     /\ fillModel.result.cancellations[c].reason = "user_cancel")
                 <=> /\ fillModel.prev.orders[k].cancelEffectiveAt # NoneAt
                     /\ fillModel.lastCall.args.timestamp
                           >= fillModel.prev.orders[k].cancelEffectiveAt)

\* C39 witness: an open order with a cancel effective at 0 is sent a second
\* cancel request, which moves the effective time to 2.
C39_Witness ==
    /\ fillModel.lastCall.method = "requestCancel"
    /\ fillModel.calls = 3
    /\ Len(fillModel.orders) = 1
    /\ fillModel.prev.orders[1].status = "open"
    /\ fillModel.prev.orders[1].cancelEffectiveAt = 0
    /\ fillModel.orders[1].cancelEffectiveAt = 2
    /\ fillModel.orders[1].status = "open"
    /\ fillModel.result.status = "cancel_requested"


\* the largest number of follow-up events the dispatch of an event of the
\* type can leave in the queue, itself counted, when no follow-up is a market
\* event: a margin_update, an order_submitted, an order_cancelled and a
\* liquidated event enqueue none; a fill and a funding payment the two risk
\* events; a signal a submission and a fill; a market event the strategy's
\* signal, the risk events and one funding payment per elapsed interval
FundingPerMarketEvent == MaxEcho + 1

RECURSIVE EventWeight(_)
EventWeight(type) ==
    CASE type \in {"order_filled", "funding_payment"} ->
             1 + 2 * EventWeight("margin_update")
      [] type = "signal_generated" ->
             1 + EventWeight("order_submitted") + EventWeight("order_filled")
      [] type \in {"tick", "candle"} ->
             1 + EventWeight("signal_generated")
               + 2 * EventWeight("margin_update")
               + FundingPerMarketEvent * EventWeight("funding_payment")
      [] OTHER -> 1

RECURSIVE PendingWork(_)
PendingWork(q) ==
    IF q = <<>> THEN 0 ELSE EventWeight(Head(q).type) + PendingWork(Tail(q))

DispatchShrinksPendingWork(i) ==
    (engines[i].pc = "running" /\ engines'[i] # engines[i])
        => \/ engines'[i].pc = "done"
           \/ PendingWork(engines'[i].eventQueue)
                < PendingWork(engines[i].eventQueue)

MarketEventFree == run.strategy \in {"noop", "longOnFirstTick"}

====
